---- MODULE Spec2Model ----
(***************************************************************************)
(* Model of market-sentry/hyperparameter_optimizer.py:                     *)
(* MomentumBreakoutBacktester (entry/exit rules, run_backtest, metrics,    *)
(* calculate_roc_safely) and HyperparameterOptimizer (load_data, the       *)
(* search loop of optimize), and of validate_and_prepare_data of           *)
(* market-sentry/prepare_data.py.                                          *)
(*                                                                         *)
(* Numbers.  The program computes in floating point; the model computes    *)
(* in fixed point, quotients rounded down:                                 *)
(*   time        minutes                                                   *)
(*   price       dollars                                                   *)
(*   money       cents                                                     *)
(*   size        1/10000 of a unit                                         *)
(*   levels      stop_loss, take_profit: price * 100000                    *)
(*   fractions   stopLossPct, takeProfitPct: 1/10000 (basis points);       *)
(*               trailing_stop_pct: 1/100000                               *)
(*   roc_*       1/100 of a percent;  vol_mult, spread_bps, bb_*: tenths   *)
(*   metrics     win_rate 1/10000; sharpe_ratio, profit_factor hundredths; *)
(*               max_drawdown 1/1000000; returns 1/100000                  *)
(* A field a candle or a position does not carry is held as 0 (candles:    *)
(* `x.get(k, d) or d` treats both alike) or as Absent (trailing_stop_pct). *)
(***************************************************************************)
EXTENDS Integers, Sequences, FiniteSets, TLC

VARIABLES
    params,             \* self.params of the backtester
    df_15m,             \* coarse-grained stream handed to run_backtest
    df_1m,              \* fine-grained stream handed to run_backtest
    pc,                 \* position of run_backtest
    candle_idx,         \* 1-based index of the fine candle being processed
    last_15m_idx,       \* number of coarse bars already admitted
    current_capital,
    positions,          \* self.positions
    trades,             \* self.trades
    equity_curve,       \* self.equity_curve
    fees_paid,          \* self.fees_paid
    entry_fees,         \* the local variable entry_fees of run_backtest
    pos_idx,            \* 1-based index of the exit loop over self.positions
    positions_to_close,
    result,             \* what run_backtest returns
    opened,             \* history: every position opened, as it was at its entry
    step_entry_evals,   \* history: coarse timestamps entry-evaluated in this step
    step_exit_evals,    \* history: positions exit-evaluated in this step
    last_exit,          \* history: the last call of check_exit_conditions
    given,              \* history: the two streams as handed to run_backtest, where recorded
    csv,                \* the input file and what the two loaders made of it
    roc,                \* one call of calculate_roc_safely
    study,              \* the Optuna study of HyperparameterOptimizer.optimize
    score,              \* one scoring of backtest results by objective_function
    wf                  \* one call of walk_forward_validation

vars == <<params, df_15m, df_1m, pc, candle_idx, last_15m_idx, current_capital,
          positions, trades, equity_curve, fees_paid, entry_fees, pos_idx,
          positions_to_close, result, opened, step_entry_evals,
          step_exit_evals, last_exit, given, csv, roc, study, score, wf>>

(***************************************************************************)
(* Bounds and inputs                                                       *)
(***************************************************************************)
\* candles of a fine stream, bars of a coarse stream
MaxFine == 3
MaxCoarse == 2
\* rows of the frame handed to calculate_roc_safely
MaxBars == 3
\* n_trials and n_jobs of optimize
MaxTrials == 3
MaxJobs == 2

\* program constants
fee_bps == 4
slippage_bps == 2
initial_capital == 1000000

Absent == -1
\* float('inf')
Infinity == 2147483647
NoSignal == [none |-> TRUE]
NoResult == [none |-> TRUE]
\* a part of the program that a specification leaves out
NotInUse == [none |-> TRUE]

Max(a, b) == IF a >= b THEN a ELSE b

\* params.get(k, default) of __init__ and check_entry_conditions, all defaults
DefaultParams ==
    [minRoc5m |-> 50, minVolMult |-> 20, maxSpreadBps |-> 80, leverage |-> 1,
     riskPct |-> 20, timeframe |-> "5m", stopLossPct |-> 200,
     takeProfitPct |-> 300]

\* a parameter set as objective_function proposes one
TunedParams ==
    [minRoc5m |-> 100, minVolMult |-> 15, maxSpreadBps |-> 60, leverage |-> 2,
     riskPct |-> 10, timeframe |-> "15m", stopLossPct |-> 100,
     takeProfitPct |-> 500]

ParamSets == {DefaultParams, TunedParams}

\* timestamp of the k-th fine candle in time order
FineTs(k) == 20 + 10 * k

FineCandles ==
    { [close |-> p, roc_1m |-> 0, rsi_14 |-> 50] : p \in {97, 99, 100, 103, 106} }
    \cup { [close |-> 103, roc_1m |-> -30, rsi_14 |-> 50],
           [close |-> 103, roc_1m |-> 0, rsi_14 |-> 90] }

FineStreams ==
    UNION { { [k \in 1..n |-> [ts |-> FineTs(k), close |-> f[k].close,
                               roc_1m |-> f[k].roc_1m, rsi_14 |-> f[k].rsi_14]]
              : f \in [1..n -> FineCandles] } : n \in 0..MaxFine }

\* a coarse bar on which every entry sub-condition holds
Breakout(t, c) ==
    [ts |-> t, close |-> c, roc_1m |-> 2, roc_5m |-> 120, roc_15m |-> 110,
     roc_30m |-> 0, roc_1h |-> 0, roc_4h |-> 0, vol_mult |-> 25,
     spread_bps |-> 50, rsi_14 |-> 60, macd |-> 2, macd_signal |-> 1,
     bb_upper |-> 0, bb_lower |-> 0]

\* a coarse bar on which a single entry sub-condition (RSI) holds
Quiet(t, c) ==
    [ts |-> t, close |-> c, roc_1m |-> 0, roc_5m |-> 0, roc_15m |-> 0,
     roc_30m |-> 0, roc_1h |-> 0, roc_4h |-> 0, vol_mult |-> 5,
     spread_bps |-> 120, rsi_14 |-> 60, macd |-> 0, macd_signal |-> 0,
     bb_upper |-> 12 * c, bb_lower |-> 10 * c]

CoarseBars ==
    { Breakout(0, 100), Breakout(30, 100), Breakout(35, 103),
      Breakout(60, 100), Quiet(25, 100) }

\* streams of distinct bars, in any order
CoarseStreams ==
    UNION { { s \in [1..n -> CoarseBars] :
                \A a, b \in 1..n : a # b => s[a].ts # s[b].ts }
            : n \in 0..MaxCoarse }

\* fine streams as a caller may hand them over: the timestamps of a stream
\* in any order
GivenFineStreams ==
    UNION { { s \in [1..n -> [ts : {FineTs(k) : k \in 1..n}, close : {100, 103},
                              roc_1m : {0}, rsi_14 : {50}]] :
                \A a, b \in 1..n : a # b => s[a].ts # s[b].ts }
            : n \in 0..MaxFine }

\* coarse bars for the entry rule: every indicator takes a value on either
\* side of its threshold, so that any number of sub-conditions can hold
EntryBars ==
    { [ts |-> 25, close |-> 100, roc_1m |-> r1, roc_5m |-> r5, roc_15m |-> r15,
       roc_30m |-> 0, roc_1h |-> 0, roc_4h |-> 0, vol_mult |-> v,
       spread_bps |-> sp, rsi_14 |-> rsi, macd |-> m, macd_signal |-> 1,
       bb_upper |-> bb[1], bb_lower |-> bb[2]]
      : r1 \in {0, 2}, r5 \in {0, 120}, r15 \in {0, 110}, v \in {5, 12, 25},
        sp \in {50, 120}, rsi \in {60, 80}, m \in {0, 2},
        bb \in {<<0, 0>>, <<1200, 1000>>} }

\* parameter sets for the entry rule: stop-loss and take-profit fractions on
\* either side of takeProfitPct = 3 * stopLossPct
EntryParamSets ==
    { [P EXCEPT !.stopLossPct = sl, !.takeProfitPct = tp]
      : P \in ParamSets, sl \in {50, 200}, tp \in {300, 1000} }

(***************************************************************************)
(* Helpers                                                                 *)
(***************************************************************************)
\* Python's `v or d`
GetOr(v, d) == IF v = 0 THEN d ELSE v

RECURSIVE InsertByTs(_, _)
InsertByTs(s, x) ==
    IF s = <<>> THEN <<x>>
    ELSE IF x.ts < s[Len(s)].ts
         THEN Append(InsertByTs(SubSeq(s, 1, Len(s) - 1), x), s[Len(s)])
         ELSE Append(s, x)

\* sort_index() left out: the stream is used in the order given
SortByTsOmitted(s) == s

\* DataFrame.sort_index()
RECURSIVE SortByTs(_)
SortByTs(s) ==
    IF s = <<>> THEN <<>>
    ELSE InsertByTs(SortByTs(SubSeq(s, 1, Len(s) - 1)), s[Len(s)])

RECURSIVE RemoveFirst(_, _)
\* list.remove(x)
RemoveFirst(s, x) ==
    IF s = <<>> THEN <<>>
    ELSE IF Head(s) = x THEN Tail(s)
         ELSE <<Head(s)>> \o RemoveFirst(Tail(s), x)

\* closed positions left in self.positions
RemoveAllOmitted(s, closing) == s

RECURSIVE RemoveAll(_, _)
\* for position in positions_to_close: self.positions.remove(position)
RemoveAll(s, closing) ==
    IF closing = <<>> THEN s
    ELSE RemoveAll(RemoveFirst(s, Head(closing)), Tail(closing))

RECURSIVE SumSeq(_)
\* sum() of a list of numbers
SumSeq(xs) == IF xs = <<>> THEN 0 ELSE Head(xs) + SumSeq(Tail(xs))

Abs(x) == IF x >= 0 THEN x ELSE -x

\* a * m1 * m2 / d rounded down, for d > 0, computed in two steps to stay
\* within the integers of the model checker
MulDiv(a, m1, m2, d) ==
    LET q == (a * m1) \div d
        r == (a * m1) % d
    IN  q * m2 + (r * m2) \div d

RECURSIVE ISqrtBetween(_, _, _)
\* the largest r in lo..hi with r * r <= x
ISqrtBetween(x, lo, hi) ==
    IF lo >= hi THEN lo
    ELSE LET mid == (lo + hi + 1) \div 2
         IN  IF mid * mid <= x THEN ISqrtBetween(x, mid, hi)
             ELSE ISqrtBetween(x, lo, mid - 1)

\* np.std needs a square root: rounded down
ISqrt(x) == ISqrtBetween(x, 0, 46340)

RECURSIVE SumPnl(_)
\* sum(t['realized_pnl'] for t in self.trades)
SumPnl(ts) ==
    IF ts = <<>> THEN 0 ELSE Head(ts).realized_pnl + SumPnl(Tail(ts))

RECURSIVE SumUnrealized(_, _)
\* the unrealized PnL of the open positions at a price
SumUnrealized(ps, price) ==
    IF ps = <<>> THEN 0
    ELSE ((price - Head(ps).entry_price) * Head(ps).size * Head(ps).leverage) \div 100
         + SumUnrealized(Tail(ps), price)

(***************************************************************************)
(* MomentumBreakoutBacktester                                              *)
(***************************************************************************)
\* calculate_roc_safely on the close column of df, in 1/100 of a percent;
\* current_idx counts from 0 as df.iloc does
calculate_roc_safely(df, periods, current_idx) ==
    IF current_idx < periods THEN 0
    ELSE LET current_price == df[current_idx + 1]
             past_price == df[current_idx - periods + 1]
         IN  IF past_price = 0 THEN 0
             ELSE (current_price * 10000) \div past_price - 10000

get_roc_value(candle, timeframe) ==
    LET v == CASE timeframe = "1m" -> candle.roc_1m
               [] timeframe = "5m" -> candle.roc_5m
               [] timeframe = "15m" -> candle.roc_15m
               [] timeframe = "30m" -> candle.roc_30m
               [] timeframe = "1h" -> candle.roc_1h
               [] timeframe = "4h" -> candle.roc_4h
               [] timeframe = "1d" -> candle.roc_4h
               [] OTHER -> candle.roc_5m
    IN  GetOr(v, 0)

\* the nine sub-conditions of check_entry_conditions, in the code's order
EntryConditions(candle, P) ==
    LET roc_value == get_roc_value(candle, P.timeframe)
        vol_mult == GetOr(candle.vol_mult, 10)
        spread == GetOr(candle.spread_bps, 0)
        rsi == GetOr(candle.rsi_14, 50)
        trend_roc == GetOr(candle.roc_15m, 0)
        macd == GetOr(candle.macd, 0)
        macd_signal == GetOr(candle.macd_signal, 0)
        bb_upper == GetOr(candle.bb_upper, 11 * candle.close)
        bb_lower == GetOr(candle.bb_lower, 9 * candle.close)
        roc_1m == GetOr(candle.roc_1m, 0)
    IN  << roc_value >= P.minRoc5m,
           vol_mult >= P.minVolMult,
           spread <= P.maxSpreadBps,
           rsi <= 70,
           trend_roc >= 5,
           vol_mult >= 10,
           macd > macd_signal,
           IF bb_upper - bb_lower > 0
               THEN 2 * (10 * candle.close - bb_lower) >= bb_upper - bb_lower
               ELSE TRUE,
           roc_1m >= 1 >>

\* the count without the ninth sub-condition (short-horizon momentum)
ConditionsMetWithoutNinth(candle, P) ==
    Cardinality({k \in 1..8 : EntryConditions(candle, P)[k]})

ConditionsMet(candle, P) ==
    Cardinality({k \in 1..9 : EntryConditions(candle, P)[k]})

\* fees without the slippage rate
calculate_feesWithoutSlippage(notional_value) ==
    (notional_value * fee_bps) \div 10000

calculate_fees(notional_value) ==
    (notional_value * (fee_bps + slippage_bps)) \div 10000

\* the take-profit fraction taken from the parameters as it is, not widened
check_entry_conditionsNotWidened(candle_15m, capital, P) ==
    IF ConditionsMet(candle_15m, P) >= 2
    THEN LET risk_amount == (capital * P.riskPct) \div 100
             position_notional == risk_amount * P.leverage
             position_size == (position_notional * 100) \div candle_15m.close
             entry_price == candle_15m.close
             stop_loss_pct == P.stopLossPct
             take_profit_pct == P.takeProfitPct
         IN  [none |-> FALSE,
              size |-> position_size,
              entry_price |-> entry_price,
              stop_loss |-> entry_price * (100000 - 10 * stop_loss_pct),
              take_profit |-> entry_price * (100000 + 10 * take_profit_pct),
              trailing_stop_pct |-> 8 * stop_loss_pct,
              highest_price |-> entry_price,
              leverage |-> P.leverage,
              timestamp |-> candle_15m.ts]
    ELSE NoSignal

\* the notional taken as the risk amount, without the leverage
check_entry_conditionsUnlevered(candle_15m, capital, P) ==
    IF ConditionsMet(candle_15m, P) >= 2
    THEN LET risk_amount == (capital * P.riskPct) \div 100
             position_notional == risk_amount
             position_size == (position_notional * 100) \div candle_15m.close
             entry_price == candle_15m.close
             stop_loss_pct == P.stopLossPct
             take_profit_pct == Max(P.takeProfitPct, stop_loss_pct * 3)
         IN  [none |-> FALSE,
              size |-> position_size,
              entry_price |-> entry_price,
              stop_loss |-> entry_price * (100000 - 10 * stop_loss_pct),
              take_profit |-> entry_price * (100000 + 10 * take_profit_pct),
              trailing_stop_pct |-> 8 * stop_loss_pct,
              highest_price |-> entry_price,
              leverage |-> P.leverage,
              timestamp |-> candle_15m.ts]
    ELSE NoSignal

check_entry_conditions(candle_15m, capital, P) ==
    IF ConditionsMet(candle_15m, P) >= 2
    THEN LET risk_amount == (capital * P.riskPct) \div 100
             position_notional == risk_amount * P.leverage
             position_size == (position_notional * 100) \div candle_15m.close
             entry_price == candle_15m.close
             stop_loss_pct == P.stopLossPct
             take_profit_pct == Max(P.takeProfitPct, stop_loss_pct * 3)
         IN  [none |-> FALSE,
              size |-> position_size,
              entry_price |-> entry_price,
              stop_loss |-> entry_price * (100000 - 10 * stop_loss_pct),
              take_profit |-> entry_price * (100000 + 10 * take_profit_pct),
              trailing_stop_pct |-> 8 * stop_loss_pct,
              highest_price |-> entry_price,
              leverage |-> P.leverage,
              timestamp |-> candle_15m.ts]
    ELSE NoSignal

\* the position dict run_backtest builds from an entry signal; pid stands
\* for the identity of the dict object
OpenPosition(entry_signal, pid) ==
    [pid |-> pid,
     size |-> entry_signal.size,
     entry_price |-> entry_signal.entry_price,
     stop_loss |-> entry_signal.stop_loss,
     take_profit |-> entry_signal.take_profit,
     leverage |-> entry_signal.leverage,
     entry_timestamp |-> entry_signal.timestamp,
     cost_basis |-> (entry_signal.size * entry_signal.entry_price) \div 100,
     highest_price |-> 0,
     trailing_stop_pct |-> Absent,
     scale_1_taken |-> FALSE, scale_2_taken |-> FALSE, scale_3_taken |-> FALSE]

\* the trailing stop assigned without max(): it may drop below the stop set
UpdateTrailingNoMax(position, current_price) ==
    LET p1 == IF current_price > GetOr(position.highest_price, position.entry_price)
              THEN [position EXCEPT !.highest_price = current_price]
              ELSE position
    IN  IF p1.trailing_stop_pct # Absent
        THEN [p1 EXCEPT !.stop_loss = p1.highest_price * (100000 - p1.trailing_stop_pct)]
        ELSE p1

\* first lines of check_exit_conditions: highest price, trailing stop
UpdateTrailing(position, current_price) ==
    LET p1 == IF current_price > GetOr(position.highest_price, position.entry_price)
              THEN [position EXCEPT !.highest_price = current_price]
              ELSE position
    IN  IF p1.trailing_stop_pct # Absent
        THEN [p1 EXCEPT !.stop_loss =
                 Max(p1.stop_loss, p1.highest_price * (100000 - p1.trailing_stop_pct))]
        ELSE p1

\* the scale-out flags of check_exit_conditions
UpdateScaleOut(position, current_price) ==
    [position EXCEPT
        !.scale_1_taken = @ \/ 1000 * current_price >= 1015 * position.entry_price,
        !.scale_2_taken = @ \/ 100 * current_price >= 103 * position.entry_price,
        !.scale_3_taken = @ \/ 100 * current_price >= 105 * position.entry_price]

\* the time-based exits tested before take-profit and stop-loss
ExitReasonTimeFirst(position, current_price, candle_1m) ==
    LET age == candle_1m.ts - position.entry_timestamp
        momentum_lost == GetOr(candle_1m.roc_1m, 0) < -20
        rsi_overbought == GetOr(candle_1m.rsi_14, 50) > 85
    IN  IF age >= 10 /\ current_price > position.entry_price
             THEN "time_based_profit_exit"
        ELSE IF age >= 30 /\ current_price < position.entry_price
             THEN "time_based_loss_exit"
        ELSE IF current_price * 100000 >= position.take_profit THEN "take_profit"
        ELSE IF current_price * 100000 <= position.stop_loss
             THEN (IF position.trailing_stop_pct # Absent
                   THEN "trailing_stop_loss" ELSE "stop_loss")
        ELSE IF momentum_lost \/ rsi_overbought
             THEN (IF momentum_lost THEN "momentum_loss" ELSE "rsi_overbought")
        ELSE "none"

\* the reversal signals tested before the time-based exits
ExitReasonSignalsFirst(position, current_price, candle_1m) ==
    LET age == candle_1m.ts - position.entry_timestamp
        momentum_lost == GetOr(candle_1m.roc_1m, 0) < -20
        rsi_overbought == GetOr(candle_1m.rsi_14, 50) > 85
    IN  IF current_price * 100000 >= position.take_profit THEN "take_profit"
        ELSE IF current_price * 100000 <= position.stop_loss
             THEN (IF position.trailing_stop_pct # Absent
                   THEN "trailing_stop_loss" ELSE "stop_loss")
        ELSE IF momentum_lost \/ rsi_overbought
             THEN (IF momentum_lost THEN "momentum_loss" ELSE "rsi_overbought")
        ELSE IF age >= 10 /\ current_price > position.entry_price
             THEN "time_based_profit_exit"
        ELSE IF age >= 30 /\ current_price < position.entry_price
             THEN "time_based_loss_exit"
        ELSE "none"

\* the exit rules without the two time-based exits
ExitReasonWithoutTimeExits(position, current_price, candle_1m) ==
    LET momentum_lost == GetOr(candle_1m.roc_1m, 0) < -20
        rsi_overbought == GetOr(candle_1m.rsi_14, 50) > 85
    IN  IF current_price * 100000 >= position.take_profit THEN "take_profit"
        ELSE IF current_price * 100000 <= position.stop_loss
             THEN (IF position.trailing_stop_pct # Absent
                   THEN "trailing_stop_loss" ELSE "stop_loss")
        ELSE IF momentum_lost \/ rsi_overbought
             THEN (IF momentum_lost THEN "momentum_loss" ELSE "rsi_overbought")
        ELSE "none"

\* the exit rules of check_exit_conditions on the updated position
ExitReason(position, current_price, candle_1m) ==
    LET age == candle_1m.ts - position.entry_timestamp
        momentum_lost == GetOr(candle_1m.roc_1m, 0) < -20
        rsi_overbought == GetOr(candle_1m.rsi_14, 50) > 85
    IN  IF current_price * 100000 >= position.take_profit THEN "take_profit"
        ELSE IF current_price * 100000 <= position.stop_loss
             THEN (IF position.trailing_stop_pct # Absent
                   THEN "trailing_stop_loss" ELSE "stop_loss")
        ELSE IF age >= 10 /\ current_price > position.entry_price
             THEN "time_based_profit_exit"
        ELSE IF age >= 30 /\ current_price < position.entry_price
             THEN "time_based_loss_exit"
        ELSE IF momentum_lost \/ rsi_overbought
             THEN (IF momentum_lost THEN "momentum_loss" ELSE "rsi_overbought")
        ELSE "none"

\* check_exit_conditions: the position as it leaves the call, and the exit
check_exit_conditions(position, current_price, candle_1m) ==
    LET p1 == UpdateTrailing(position, current_price)
        r == ExitReason(p1, current_price, candle_1m)
        early == r \in {"take_profit", "stop_loss", "trailing_stop_loss"}
    IN  [position |-> IF early THEN p1 ELSE UpdateScaleOut(p1, current_price),
         exit_reason |-> r,
         exit_price |-> current_price,
         timestamp |-> candle_1m.ts]

\* the comparison of the two timestamps inverted
AdmissibleInverted(bar_ts, idx) == bar_ts >= idx

\* the completeness test left out: every coarse bar is admitted at once
AdmissibleAlways(bar_ts, idx) == TRUE

\* `candle_15m.name <= idx`: the coarse bar is complete at the fine timestamp
Admissible(bar_ts, idx) == bar_ts <= idx

\* an equity point appended only while a position is open
UpdateEquityCurveWhenOpen(curve, idx, capital, ps, price) ==
    IF ps = <<>> THEN curve
    ELSE Append(curve, <<idx, capital + SumUnrealized(ps, price)>>)

\* "Update equity curve": one point per step, appended after entries and exits
UpdateEquityCurve(curve, idx, capital, ps, price) ==
    Append(curve, <<idx, capital + SumUnrealized(ps, price)>>)

(***************************************************************************)
(* run_backtest                                                            *)
(***************************************************************************)
candle_1m == df_1m[candle_idx]
current_price == candle_1m.close

Init ==
    /\ params \in ParamSets
    /\ df_15m \in CoarseStreams
    /\ df_1m \in FineStreams
    /\ pc = "init"
    /\ candle_idx = 0
    /\ last_15m_idx = 0
    /\ current_capital = 0
    /\ positions = <<>>
    /\ trades = <<>>
    /\ equity_curve = <<>>
    /\ fees_paid = 0
    /\ entry_fees = Absent
    /\ pos_idx = 0
    /\ positions_to_close = <<>>
    /\ result = NoResult
    /\ opened = <<>>
    /\ step_entry_evals = <<>>
    /\ step_exit_evals = <<>>
    /\ last_exit = NoSignal
    /\ given = NotInUse
    /\ csv = NotInUse
    /\ roc = NotInUse
    /\ study = NotInUse
    /\ score = NotInUse
    /\ wf = NotInUse

\* set-up of run_backtest up to the head of the loop over the fine candles;
\* df_1m.index[0] of an empty stream raises IndexError
Begin ==
    /\ pc = "init"
    /\ IF df_1m = <<>>
       THEN /\ pc' = "raised"
            /\ UNCHANGED <<df_15m, df_1m, current_capital, equity_curve, candle_idx>>
       ELSE /\ current_capital' = initial_capital
            /\ equity_curve' = << <<df_1m[1].ts, initial_capital>> >>
            /\ df_15m' = SortByTs(df_15m)
            /\ df_1m' = SortByTs(df_1m)
            /\ candle_idx' = 1
            /\ pc' = "admit"
    /\ positions' = <<>>
    /\ trades' = <<>>
    /\ fees_paid' = 0
    /\ last_15m_idx' = 0
    /\ UNCHANGED <<given, csv, roc, study, score, wf, params, entry_fees, pos_idx, positions_to_close, result,
                   opened, step_entry_evals, step_exit_evals, last_exit>>

\* one iteration of `for i in range(last_15m_idx, len(df_15m))` that admits a bar
AdmitBar ==
    /\ pc = "admit"
    /\ last_15m_idx < Len(df_15m)
    /\ LET candle_15m == df_15m[last_15m_idx + 1]
           entry_signal == check_entry_conditions(candle_15m, current_capital, params)
           position == OpenPosition(entry_signal, Len(opened) + 1)
           fees == calculate_fees(position.cost_basis)
       IN  /\ Admissible(candle_15m.ts, candle_1m.ts)
           /\ step_entry_evals' = Append(step_entry_evals, candle_15m.ts)
           /\ last_15m_idx' = last_15m_idx + 1
           /\ IF entry_signal.none
              THEN UNCHANGED <<positions, current_capital, fees_paid, entry_fees, opened>>
              ELSE /\ positions' = Append(positions, position)
                   /\ current_capital' = current_capital - fees
                   /\ fees_paid' = fees_paid + fees
                   /\ entry_fees' = fees
                   /\ opened' = Append(opened,
                          [entry_fee |-> fees,
                           step |-> candle_idx,
                           bar_ts |-> candle_15m.ts,
                           size |-> position.size,
                           entry_price |-> position.entry_price,
                           capital |-> current_capital,
                           unrealized |-> SumUnrealized(positions, current_price)])
    /\ UNCHANGED <<given, csv, roc, study, score, wf, params, df_15m, df_1m, pc, candle_idx, trades, equity_curve,
                   pos_idx, positions_to_close, result, step_exit_evals, last_exit>>

\* the loop over the coarse bars ends: range exhausted, or `break`
AdmitDone ==
    /\ pc = "admit"
    /\ \/ last_15m_idx >= Len(df_15m)
       \/ /\ last_15m_idx < Len(df_15m)
          /\ ~Admissible(df_15m[last_15m_idx + 1].ts, candle_1m.ts)
    /\ pc' = "exits"
    /\ pos_idx' = 1
    /\ positions_to_close' = <<>>
    /\ UNCHANGED <<given, csv, roc, study, score, wf, params, df_15m, df_1m, candle_idx, last_15m_idx,
                   current_capital, positions, trades, equity_curve, fees_paid,
                   entry_fees, result, opened, step_entry_evals,
                   step_exit_evals, last_exit>>

\* one iteration of `for position in self.positions`
ExitEval ==
    /\ pc = "exits"
    /\ pos_idx <= Len(positions)
    /\ LET exit_signal == check_exit_conditions(positions[pos_idx], current_price, candle_1m)
           position == exit_signal.position
           exit_price == exit_signal.exit_price
           exit_value == (position.size * exit_price) \div 100
           exit_fees == calculate_fees(exit_value)
           realized_pnl == (exit_value - position.cost_basis) * position.leverage - exit_fees
           trade == [pid |-> position.pid,
                     entry_timestamp |-> position.entry_timestamp,
                     exit_timestamp |-> exit_signal.timestamp,
                     entry_price |-> position.entry_price,
                     exit_price |-> exit_price,
                     quantity |-> position.size,
                     realized_pnl |-> realized_pnl,
                     fees |-> entry_fees + exit_fees,
                     leverage |-> position.leverage,
                     exit_reason |-> exit_signal.exit_reason,
                     \* history: locals of the loop body, kept with the trade
                     exit_value |-> exit_value,
                     cost_basis |-> position.cost_basis,
                     exit_fee |-> exit_fees]
       IN  /\ positions' = [positions EXCEPT ![pos_idx] = position]
           /\ last_exit' = [none |-> FALSE,
                            before |-> positions[pos_idx],
                            position |-> position,
                            price |-> current_price,
                            candle |-> candle_1m,
                            exit_reason |-> exit_signal.exit_reason]
           /\ step_exit_evals' = Append(step_exit_evals, position.pid)
           /\ IF exit_signal.exit_reason # "none"
              THEN /\ fees_paid' = fees_paid + exit_fees
                   /\ trades' = Append(trades, trade)
                   /\ current_capital' = current_capital + realized_pnl
                   /\ positions_to_close' = Append(positions_to_close, position)
              ELSE UNCHANGED <<fees_paid, trades, current_capital, positions_to_close>>
    /\ pos_idx' = pos_idx + 1
    /\ UNCHANGED <<given, csv, roc, study, score, wf, params, df_15m, df_1m, pc, candle_idx, last_15m_idx,
                   equity_curve, entry_fees, result, opened, step_entry_evals>>

\* end of a step: closed positions removed, equity point appended, next candle
CloseStep ==
    /\ pc = "exits"
    /\ pos_idx > Len(positions)
    /\ LET remaining == RemoveAll(positions, positions_to_close)
       IN  /\ positions' = remaining
           /\ equity_curve' = UpdateEquityCurve(equity_curve, candle_1m.ts,
                                  current_capital, remaining, current_price)
    /\ IF candle_idx < Len(df_1m)
       THEN /\ candle_idx' = candle_idx + 1
            /\ pc' = "admit"
            /\ step_entry_evals' = <<>>
            /\ step_exit_evals' = <<>>
       ELSE /\ pc' = "metrics"
            /\ UNCHANGED <<candle_idx, step_entry_evals, step_exit_evals>>
    /\ UNCHANGED <<given, csv, roc, study, score, wf, params, df_15m, df_1m, last_15m_idx, current_capital, trades,
                   fees_paid, entry_fees, pos_idx, positions_to_close, result,
                   opened, last_exit>>

\* the equity values of the curve: [eq for _, eq in self.equity_curve]
EquityValues(curve) == [k \in 1..Len(curve) |-> curve[k][2]]

\* np.diff(equity_values) / equity_values[:-1], in 1/100000
Returns(values) ==
    [k \in 1..(Len(values) - 1) |->
        MulDiv(values[k + 1] - values[k], 1000, 100, values[k])]

\* the Sharpe ratio of the equity curve, in hundredths
SharpeRatio(curve) ==
    LET returns == IF Len(curve) > 1 THEN Returns(EquityValues(curve)) ELSE <<>>
        n == Len(returns)
        mean == SumSeq(returns) \div n
        squares == [k \in 1..n |-> (returns[k] - mean) * (returns[k] - mean)]
        std == ISqrt(SumSeq(squares) \div n)
    IN  IF n > 0 /\ \E k \in 1..n : returns[k] # returns[1]
        THEN (1587 * mean) \div Max(std, 1)
        ELSE 0

\* the drawdown measured against the initial capital only: the peak is not raised
MaxDrawdownPeakNotRaised(curve, k, peak, max_dd) ==
    LET lows == { MulDiv(peak - curve[j][2], 1000, 1000, peak) : j \in k..Len(curve) }
    IN  IF \E d \in lows : d > max_dd
        THEN CHOOSE d \in lows : \A e \in lows : e <= d
        ELSE max_dd

RECURSIVE MaxDrawdown(_, _, _, _)
\* the loop "Maximum drawdown" from the k-th equity point on, in 1/1000000
MaxDrawdown(curve, k, peak, max_dd) ==
    IF k > Len(curve) THEN max_dd
    ELSE LET equity == curve[k][2]
             peak1 == IF equity > peak THEN equity ELSE peak
             dd == MulDiv(peak1 - equity, 1000, 1000, peak1)
         IN  MaxDrawdown(curve, k + 1, peak1, Max(max_dd, dd))

\* the summary of a run without trades taken from the equity curve
NoTradeMetricsFromCurve(capital0) ==
    [none |-> FALSE, total_trades |-> 0, win_rate |-> 0, total_pnl |-> 0,
     total_fees |-> fees_paid, sharpe_ratio |-> SharpeRatio(equity_curve),
     max_drawdown |-> MaxDrawdown(equity_curve, 1, capital0, 0),
     profit_factor |-> 0, avg_win |-> 0, avg_loss |-> 0,
     equity_curve |-> equity_curve,
     final_equity |-> equity_curve[Len(equity_curve)][2]]

\* _calculate_metrics, `if not self.trades`
NoTradeMetrics(capital0) ==
    [none |-> FALSE, total_trades |-> 0, win_rate |-> 0, total_pnl |-> 0,
     total_fees |-> fees_paid, sharpe_ratio |-> 0, max_drawdown |-> 0,
     profit_factor |-> 0, avg_win |-> 0, avg_loss |-> 0,
     equity_curve |-> equity_curve, final_equity |-> capital0]

\* _calculate_metrics of a run with trades.  win_rate in 1/10000,
\* sharpe_ratio and profit_factor in hundredths, max_drawdown in 1/1000000
TradeMetrics(capital0) ==
    LET pnl == [k \in 1..Len(trades) |-> trades[k].realized_pnl]
        winning_trades == SelectSeq(pnl, LAMBDA x : x > 0)
        losing_trades == SelectSeq(pnl, LAMBDA x : x <= 0)
        gross_profit == SumSeq(winning_trades)
        gross_loss == Abs(SumSeq(losing_trades))
    IN  [none |-> FALSE,
         total_trades |-> Len(trades),
         win_rate |-> (Len(winning_trades) * 10000) \div Len(trades),
         total_pnl |-> SumPnl(trades),
         total_fees |-> fees_paid,
         sharpe_ratio |-> SharpeRatio(equity_curve),
         max_drawdown |-> MaxDrawdown(equity_curve, 1, capital0, 0),
         profit_factor |-> IF gross_loss > 0
                           THEN (gross_profit * 100) \div gross_loss
                           ELSE Infinity,
         avg_win |-> IF winning_trades # <<>>
                     THEN gross_profit \div Len(winning_trades) ELSE 0,
         avg_loss |-> IF losing_trades # <<>>
                      THEN SumSeq(losing_trades) \div Len(losing_trades) ELSE 0,
         equity_curve |-> equity_curve,
         final_equity |-> IF equity_curve # <<>>
                          THEN equity_curve[Len(equity_curve)][2] ELSE capital0,
         winning_trades |-> Len(winning_trades),
         losing_trades |-> Len(losing_trades)]

\* the zero-trade summary returned whatever trades were recorded
_calculate_metricsAlwaysDegenerate(capital0) == NoTradeMetrics(capital0)

_calculate_metrics(capital0) ==
    IF trades = <<>> THEN NoTradeMetrics(capital0) ELSE TradeMetrics(capital0)

\* `return self._calculate_metrics(initial_capital)`
Return ==
    /\ pc = "metrics"
    /\ pc' = "done"
    /\ result' = _calculate_metrics(initial_capital)
    /\ UNCHANGED <<given, csv, roc, study, score, wf, params, df_15m, df_1m, candle_idx, last_15m_idx,
                   current_capital, positions, trades, equity_curve, fees_paid,
                   entry_fees, pos_idx, positions_to_close, opened,
                   step_entry_evals, step_exit_evals, last_exit>>

Next == Begin \/ AdmitBar \/ AdmitDone \/ ExitEval \/ CloseStep \/ Return

Spec == Init /\ [][Next]_vars

(***************************************************************************)
(* check_exit_conditions on its own: a position dict of any content is    *)
(* exit-evaluated on the successive candles of a fine stream until it      *)
(* exits.  A dict that carries trailing_stop_pct carries highest_price, as *)
(* every entry signal does.                                                *)
(***************************************************************************)
ProbePositions ==
    { [pid |-> 1, size |-> 200000, entry_price |-> 100, stop_loss |-> sl,
       take_profit |-> tp, leverage |-> 1, entry_timestamp |-> t,
       cost_basis |-> 200000, highest_price |-> h[1],
       trailing_stop_pct |-> h[2],
       scale_1_taken |-> FALSE, scale_2_taken |-> FALSE, scale_3_taken |-> FALSE]
      : sl \in {9800000, 9950000}, tp \in {10300000, 10600000}, t \in {0, 25},
        h \in {<<0, Absent>>, <<103, Absent>>, <<100, 1600>>, <<103, 1600>>} }

InitProbe ==
    /\ params = DefaultParams
    /\ df_15m = <<>>
    /\ df_1m \in FineStreams
    /\ pc = "probe"
    /\ candle_idx = 1
    /\ last_15m_idx = 0
    /\ current_capital = 0
    /\ positions \in { <<p>> : p \in ProbePositions }
    /\ trades = <<>>
    /\ equity_curve = <<>>
    /\ fees_paid = 0
    /\ entry_fees = Absent
    /\ pos_idx = 1
    /\ positions_to_close = <<>>
    /\ result = NoResult
    /\ opened = <<>>
    /\ step_entry_evals = <<>>
    /\ step_exit_evals = <<>>
    /\ last_exit = NoSignal
    /\ given = NotInUse
    /\ csv = NotInUse
    /\ roc = NotInUse
    /\ study = NotInUse
    /\ score = NotInUse
    /\ wf = NotInUse

\* one call of check_exit_conditions(position, candle_1m['close'], candle_1m)
ProbeExit ==
    /\ pc = "probe"
    /\ candle_idx <= Len(df_1m)
    /\ positions # <<>>
    /\ LET exit_signal == check_exit_conditions(positions[1], current_price, candle_1m)
       IN  /\ last_exit' = [none |-> FALSE,
                            before |-> positions[1],
                            position |-> exit_signal.position,
                            price |-> current_price,
                            candle |-> candle_1m,
                            exit_reason |-> exit_signal.exit_reason]
           /\ positions' = IF exit_signal.exit_reason = "none"
                           THEN <<exit_signal.position>> ELSE <<>>
    /\ IF candle_idx < Len(df_1m)
       THEN candle_idx' = candle_idx + 1 /\ pc' = pc
       ELSE pc' = "probed" /\ candle_idx' = candle_idx
    /\ UNCHANGED <<given, csv, roc, study, score, wf, params, df_15m, df_1m, last_15m_idx, current_capital, trades,
                   equity_curve, fees_paid, entry_fees, pos_idx,
                   positions_to_close, result, opened, step_entry_evals,
                   step_exit_evals>>

NextProbe == ProbeExit

SpecExit == InitProbe /\ [][NextProbe]_vars

(***************************************************************************)
(* run_backtest on a single coarse bar of any indicator content and a      *)
(* single fine candle, over the parameter sets of the entry rule           *)
(***************************************************************************)
InitEntry ==
    /\ params \in EntryParamSets
    /\ df_15m \in { <<b>> : b \in EntryBars }
    /\ df_1m \in { s \in FineStreams : Len(s) = 1 }
    /\ pc = "init"
    /\ candle_idx = 0
    /\ last_15m_idx = 0
    /\ current_capital = 0
    /\ positions = <<>>
    /\ trades = <<>>
    /\ equity_curve = <<>>
    /\ fees_paid = 0
    /\ entry_fees = Absent
    /\ pos_idx = 0
    /\ positions_to_close = <<>>
    /\ result = NoResult
    /\ opened = <<>>
    /\ step_entry_evals = <<>>
    /\ step_exit_evals = <<>>
    /\ last_exit = NoSignal
    /\ given = NotInUse
    /\ csv = NotInUse
    /\ roc = NotInUse
    /\ study = NotInUse
    /\ score = NotInUse
    /\ wf = NotInUse

SpecEntry == InitEntry /\ [][Next]_vars

(***************************************************************************)
(* run_backtest on streams in the order the caller gave them, which is     *)
(* recorded in `given`                                                     *)
(***************************************************************************)
InitOrder ==
    /\ params = DefaultParams
    /\ df_15m \in CoarseStreams
    /\ df_1m \in GivenFineStreams
    /\ pc = "init"
    /\ candle_idx = 0
    /\ last_15m_idx = 0
    /\ current_capital = 0
    /\ positions = <<>>
    /\ trades = <<>>
    /\ equity_curve = <<>>
    /\ fees_paid = 0
    /\ entry_fees = Absent
    /\ pos_idx = 0
    /\ positions_to_close = <<>>
    /\ result = NoResult
    /\ opened = <<>>
    /\ step_entry_evals = <<>>
    /\ step_exit_evals = <<>>
    /\ last_exit = NoSignal
    /\ given = [df_15m |-> df_15m, df_1m |-> df_1m]
    /\ csv = NotInUse
    /\ roc = NotInUse
    /\ study = NotInUse
    /\ score = NotInUse
    /\ wf = NotInUse

SpecOrder == InitOrder /\ [][Next]_vars

(***************************************************************************)
(* calculate_roc_safely on its own: one call on a frame of any closes      *)
(***************************************************************************)
backtest_vars ==
    <<params, df_15m, df_1m, pc, candle_idx, last_15m_idx, current_capital,
      positions, trades, equity_curve, fees_paid, entry_fees, pos_idx,
      positions_to_close, result, opened, step_entry_evals, step_exit_evals,
      last_exit, given>>

\* a backtester on which run_backtest is not called
BacktesterAtRest ==
    /\ params = DefaultParams
    /\ df_15m = <<>>
    /\ df_1m = <<>>
    /\ pc = "rest"
    /\ candle_idx = 0
    /\ last_15m_idx = 0
    /\ current_capital = 0
    /\ positions = <<>>
    /\ trades = <<>>
    /\ equity_curve = <<>>
    /\ fees_paid = 0
    /\ entry_fees = Absent
    /\ pos_idx = 0
    /\ positions_to_close = <<>>
    /\ result = NoResult
    /\ opened = <<>>
    /\ step_entry_evals = <<>>
    /\ step_exit_evals = <<>>
    /\ last_exit = NoSignal
    /\ given = NotInUse

\* closes of a frame: a price series, or corrupt rows (zero, negative)
RocCloses == {-100, 0, 100, 110}

InitRoc ==
    /\ BacktesterAtRest
    /\ csv = NotInUse
    /\ study = NotInUse
    /\ score = NotInUse
    /\ wf = NotInUse
    /\ \E n \in 1..MaxBars :
           roc \in [df : [1..n -> RocCloses], periods : 1..2,
                    current_idx : 0..(n - 1), called : {FALSE}, value : {0}]

\* one call backtester.calculate_roc_safely(df, periods, i)
CallRoc ==
    /\ ~roc.called
    /\ roc' = [roc EXCEPT !.called = TRUE,
                          !.value = calculate_roc_safely(roc.df, roc.periods,
                                                         roc.current_idx)]
    /\ UNCHANGED <<backtest_vars, score, wf, csv, study>>

NextRoc == CallRoc

SpecRoc == InitRoc /\ [][NextRoc]_vars

(***************************************************************************)
(* The input file and its two loaders: HyperparameterOptimizer.__init__    *)
(* with load_data, and validate_and_prepare_data of prepare_data.py        *)
(***************************************************************************)
Columns == {"open", "high", "low", "close", "volume", "timestamp", "ts", "time"}

\* load_data: required_cols that are not among the columns of the file
missing_colsWithoutVolume(columns) == {"open", "high", "low", "close"} \ columns

missing_cols(columns) == {"open", "high", "low", "close", "volume"} \ columns

\* validate_and_prepare_data: required_columns that are not among the columns
missing_required(columns) == {"open", "high", "low", "close", "volume"} \ columns

\* HyperparameterOptimizer(data_path, ...): __init__ calls load_data, and the
\* object exists only if load_data returns.  Without a timestamp or ts column
\* the frame keeps its integer index and resample('15min') raises TypeError.
ConstructOptimizer ==
    /\ csv.loaded = "no"
    /\ csv' = [csv EXCEPT
          !.loaded = IF missing_cols(csv.columns) # {} THEN "ValueError"
                     ELSE IF csv.columns \cap {"timestamp", "ts"} = {} THEN "TypeError"
                     ELSE "loaded",
          !.optimizer = missing_cols(csv.columns) = {}
                        /\ csv.columns \cap {"timestamp", "ts"} # {}]
    /\ UNCHANGED <<backtest_vars, score, wf, roc, study>>

\* validate_and_prepare_data(input_file, output_file)
PrepareData ==
    /\ csv.prepared = "no"
    /\ IF missing_required(csv.columns) # {}
       THEN csv' = [csv EXCEPT !.prepared = "False"]
       ELSE IF csv.columns \cap {"timestamp", "ts", "time"} = {}
       THEN csv' = [csv EXCEPT !.prepared = "False"]
       ELSE csv' = [csv EXCEPT !.prepared = "True",
                               !.written = IF csv.output_file THEN "output_file"
                                           ELSE "input_file"]
    /\ UNCHANGED <<backtest_vars, score, wf, roc, study>>

(***************************************************************************)
(* load_data followed by the backtest of its two frames, as                *)
(* objective_function runs it.  A file is a sequence of one-minute rows in *)
(* time order; timestamps are minutes, volumes are whole units, and the    *)
(* file has no spread_bps column.                                          *)
(***************************************************************************)
\* minute of the first row of a file: the start of a 15-minute interval, or
\* one or two minutes before the next interval starts
FileStarts == {0, 13, 14}

FileRows == [close : {100, 103}, volume : {10, 30}]

\* pd.read_csv with the timestamp column made the index: up to MaxFine rows
\* on consecutive minutes
Files ==
    UNION { { [k \in 1..n |-> [ts |-> t0 + k - 1, close |-> f[k].close,
                               volume |-> f[k].volume]]
              : f \in [1..n -> FileRows] } : n \in 1..MaxFine, t0 \in FileStarts }

\* the close column of a frame
CloseColumn(df) == [k \in 1..Len(df) |-> df[k].close]

\* df['volume'] / df['volume'].rolling(window=20, min_periods=1).mean() at
\* row i, in tenths
vol_mult_at(df, i) ==
    LET first == Max(1, i - 19)
        window == [k \in 1..(i - first + 1) |-> df[first + k - 1].volume]
    IN  (10 * df[i].volume * Len(window)) \div SumSeq(window)

\* calculate_rsi at 0-based index i of the prices
calculate_rsi(prices, i) ==
    IF i < 14 THEN 50
    ELSE LET changes == [k \in 1..14 |-> prices[i - 14 + k + 1] - prices[i - 14 + k]]
             gains == SumSeq([k \in 1..14 |-> IF changes[k] > 0 THEN changes[k] ELSE 0])
             losses == SumSeq([k \in 1..14 |-> IF changes[k] > 0 THEN 0 ELSE -changes[k]])
         IN  IF losses = 0 THEN 100
             ELSE (100 * gains) \div (gains + losses)

\* row i of the frame with the indicator columns load_data adds to it
WithIndicators(df, i) ==
    [ts |-> df[i].ts,
     close |-> df[i].close,
     roc_1m |-> calculate_roc_safely(CloseColumn(df), 1, i - 1),
     roc_5m |-> calculate_roc_safely(CloseColumn(df), 5, i - 1),
     roc_15m |-> calculate_roc_safely(CloseColumn(df), 15, i - 1),
     roc_30m |-> calculate_roc_safely(CloseColumn(df), 30, i - 1),
     roc_1h |-> calculate_roc_safely(CloseColumn(df), 60, i - 1),
     roc_4h |-> calculate_roc_safely(CloseColumn(df), 240, i - 1),
     vol_mult |-> vol_mult_at(df, i),
     rsi_14 |-> calculate_rsi(CloseColumn(df), i - 1),
     spread_bps |-> 50]

\* label of the 15-minute interval a timestamp falls in: the interval's start
IntervalLabel(ts) == 15 * (ts \div 15)

\* index of the last row of the frame in the interval labelled b
LastRowIn(df, b) ==
    CHOOSE i \in 1..Len(df) :
        /\ IntervalLabel(df[i].ts) = b
        /\ \A j \in 1..Len(df) : IntervalLabel(df[j].ts) = b => j <= i

\* one row of df.resample('15min').agg({... 'close': 'last', indicators:
\* 'last'}); the frame has no macd and no Bollinger columns
ResampledBar(df, b) ==
    LET last == WithIndicators(df, LastRowIn(df, b))
    IN  [ts |-> b, close |-> last.close,
         roc_1m |-> last.roc_1m, roc_5m |-> last.roc_5m, roc_15m |-> last.roc_15m,
         roc_30m |-> last.roc_30m, roc_1h |-> last.roc_1h, roc_4h |-> last.roc_4h,
         vol_mult |-> last.vol_mult, spread_bps |-> last.spread_bps,
         rsi_14 |-> last.rsi_14,
         macd |-> 0, macd_signal |-> 0, bb_upper |-> 0, bb_lower |-> 0]

RECURSIVE ResampledBars(_, _)
\* the rows of the resampled frame for a set of labels, in ascending order
ResampledBars(df, labels) ==
    IF labels = {} THEN <<>>
    ELSE LET b == CHOOSE x \in labels : \A y \in labels : x <= y
         IN  <<ResampledBar(df, b)>> \o ResampledBars(df, labels \ {b})

\* self.data_15m: one row per interval that holds a row of the file (dropna
\* removes the empty ones)
Resample15(df) ==
    ResampledBars(df, { IntervalLabel(df[i].ts) : i \in 1..Len(df) })

\* self.data_1m = df.copy(), taken before the indicator columns are added
Data1m(df) ==
    [k \in 1..Len(df) |-> [ts |-> df[k].ts, close |-> df[k].close,
                           roc_1m |-> 0, rsi_14 |-> 0]]

InitResample ==
    /\ params \in ParamSets
    /\ csv \in [none : {FALSE}, df : Files]
    /\ df_15m = <<>>
    /\ df_1m = <<>>
    /\ pc = "load"
    /\ candle_idx = 0
    /\ last_15m_idx = 0
    /\ current_capital = 0
    /\ positions = <<>>
    /\ trades = <<>>
    /\ equity_curve = <<>>
    /\ fees_paid = 0
    /\ entry_fees = Absent
    /\ pos_idx = 0
    /\ positions_to_close = <<>>
    /\ result = NoResult
    /\ opened = <<>>
    /\ step_entry_evals = <<>>
    /\ step_exit_evals = <<>>
    /\ last_exit = NoSignal
    /\ given = NotInUse
    /\ roc = NotInUse
    /\ study = NotInUse
    /\ score = NotInUse
    /\ wf = NotInUse

\* load_data, and the frames handed to run_backtest(self.data_15m, self.data_1m)
LoadData ==
    /\ pc = "load"
    /\ df_1m' = Data1m(csv.df)
    /\ df_15m' = Resample15(csv.df)
    /\ pc' = "init"
    /\ UNCHANGED <<params, candle_idx, last_15m_idx, current_capital, positions,
                   trades, equity_curve, fees_paid, entry_fees, pos_idx,
                   positions_to_close, result, opened, step_entry_evals,
                   step_exit_evals, last_exit, given, csv, roc, study, score, wf>>

NextResample ==
    LoadData \/ Begin \/ AdmitBar \/ AdmitDone \/ ExitEval \/ CloseStep \/ Return

SpecResample == InitResample /\ [][NextResample]_vars

(***************************************************************************)
(* objective_function, from the results of its backtest to its return      *)
(* value.  The objective and its terms are held in 1/1000000; a win rate   *)
(* (1/10000) is 100 of these, a Sharpe ratio (hundredths) 10000, and a     *)
(* profit in cents divided by $5000 is 2.  The weights are hundredths.     *)
(***************************************************************************)
win_rate_weight == 50
sharpe_weight == 15
pnl_weight == 5

Min(a, b) == IF a <= b THEN a ELSE b

\* a bonus granted from ten trades on
consistency_bonusFromTen(results) ==
    IF results.win_rate > 0 /\ results.total_trades >= 10
    THEN Min(100000, results.win_rate * 20)
    ELSE 0

\* consistency_bonus = min(0.1, win_rate * 0.2) if win_rate > 0 and
\* total_trades > 10, else 0
consistency_bonus(results) ==
    IF results.win_rate > 0 /\ results.total_trades > 10
    THEN Min(100000, results.win_rate * 20)
    ELSE 0

\* the value objective_function returns for the results of its backtest
objective(results) ==
    LET sharpe_score == Max(0, results.sharpe_ratio) * 10000
        win_rate_score == results.win_rate * 100
        pnl_score == Max(0, results.total_pnl * 2)
        dd_penalty == results.max_drawdown * 1
    IN  (win_rate_weight * win_rate_score + sharpe_weight * sharpe_score
         + pnl_weight * pnl_score) \div 100
        + consistency_bonus(results) - dd_penalty

\* results a backtest can return: no trade at all, or some trades of which
\* some were won, with a Sharpe ratio, a profit and a drawdown of any sign
\* and size
ScoredResults ==
    { [total_trades |-> 0, win_rate |-> 0, sharpe_ratio |-> 0, total_pnl |-> 0,
       max_drawdown |-> 0] }
    \cup
    { [total_trades |-> n, win_rate |-> (w * 10000) \div n, sharpe_ratio |-> sh,
       total_pnl |-> pnl, max_drawdown |-> dd] :
          n \in {1, 5, 10, 11, 20}, w \in {0, 1, 5, 11},
          sh \in {-100, 0, 120}, pnl \in {-50000, 0, 250000},
          dd \in {0, 120000} }

InitScore ==
    /\ BacktesterAtRest
    /\ csv = NotInUse
    /\ roc = NotInUse
    /\ study = NotInUse
    /\ wf = NotInUse
    /\ \E r \in ScoredResults :
           /\ r.win_rate <= 10000
           /\ score = [results |-> r, called |-> FALSE, bonus |-> 0, value |-> 0]

\* lines 676-715 of objective_function on the results of a backtest
CallObjective ==
    /\ ~score.called
    /\ score' = [score EXCEPT !.called = TRUE,
                              !.bonus = consistency_bonus(score.results),
                              !.value = objective(score.results)]
    /\ UNCHANGED <<backtest_vars, csv, roc, study, wf>>

NextScore == CallObjective

SpecScore == InitScore /\ [][NextScore]_vars

(***************************************************************************)
(* walk_forward_validation(best_params, n_splits).  The input file has one *)
(* row every `freq` minutes from minute 0 on; data_1m holds its rows and   *)
(* data_15m the 15-minute bars resampled from them, bar j being labelled   *)
(* with minute 15 * j.  Rows and bars are counted from 0, as iloc does.    *)
(* The backtest of a split is run_backtest above; here it is held by what  *)
(* it is handed and by the results it may return.                          *)
(***************************************************************************)
\* bars of data_15m, and n_splits
MaxWalkBars == 7
MaxSplits == 3

\* df.iloc[lo:hi] of a frame of len rows
Iloc(lo, hi, len) == { r \in 0..(len - 1) : lo <= r /\ r < hi }

split_size(total_periods, n_splits) == total_periods \div n_splits

start_idx(i, total_periods, n_splits) == i * split_size(total_periods, n_splits)

\* every split ending where the next starts, the last included
end_idxWithoutRemainder(i, total_periods, n_splits) ==
    (i + 1) * split_size(total_periods, n_splits)

end_idx(i, total_periods, n_splits) ==
    IF i < n_splits - 1 THEN (i + 1) * split_size(total_periods, n_splits)
    ELSE total_periods

\* start_idx + int((end_idx - start_idx) * 0.67)
train_end(i, total_periods, n_splits) ==
    start_idx(i, total_periods, n_splits)
    + ((end_idx(i, total_periods, n_splits)
        - start_idx(i, total_periods, n_splits)) * 67) \div 100

\* the minute of a row of data_1m, and of a bar of data_15m
FineMinute(r, freq) == freq * r
CoarseMinute(j) == 15 * j

\* results of the backtest of a split: around the three thresholds of
\* is_robust, and those of a run without trades
NoTradeResults == [sharpe_ratio |-> 0, win_rate |-> 0, max_drawdown |-> 0, total_pnl |-> 0]

WalkResults ==
    { NoTradeResults,
      [sharpe_ratio |-> 60, win_rate |-> 6000, max_drawdown |-> 100000, total_pnl |-> 9000],
      [sharpe_ratio |-> 40, win_rate |-> 5000, max_drawdown |-> 200000, total_pnl |-> -3000],
      [sharpe_ratio |-> 50, win_rate |-> 6000, max_drawdown |-> 100000, total_pnl |-> 3000],
      [sharpe_ratio |-> 60, win_rate |-> 5500, max_drawdown |-> 100000, total_pnl |-> 3000],
      [sharpe_ratio |-> 60, win_rate |-> 6000, max_drawdown |-> 150000, total_pnl |-> 3000] }

\* a verdict that accepts a mean Sharpe ratio of exactly 0.5
is_robustFromHalf(rs) ==
    /\ SumSeq([k \in 1..Len(rs) |-> rs[k].sharpe_ratio]) >= 50 * Len(rs)
    /\ SumSeq([k \in 1..Len(rs) |-> rs[k].win_rate]) > 5500 * Len(rs)
    /\ SumSeq([k \in 1..Len(rs) |-> rs[k].max_drawdown]) < 150000 * Len(rs)

\* avg_sharpe > 0.5 and avg_win_rate > 0.55 and avg_max_dd < 0.15, each mean
\* compared exactly (sum against threshold times count)
is_robust(rs) ==
    /\ SumSeq([k \in 1..Len(rs) |-> rs[k].sharpe_ratio]) > 50 * Len(rs)
    /\ SumSeq([k \in 1..Len(rs) |-> rs[k].win_rate]) > 5500 * Len(rs)
    /\ SumSeq([k \in 1..Len(rs) |-> rs[k].max_drawdown]) < 150000 * Len(rs)

\* the dict walk_forward_validation returns
Aggregate(rs) ==
    LET n == Len(rs)
        avg_pnl == SumSeq([k \in 1..n |-> rs[k].total_pnl]) \div n
        pnl_std == ISqrt(SumSeq([k \in 1..n |-> (rs[k].total_pnl - avg_pnl)
                                                * (rs[k].total_pnl - avg_pnl)]) \div n)
    IN  [validation_results |-> rs,
         avg_pnl |-> avg_pnl,
         avg_win_rate |-> SumSeq([k \in 1..n |-> rs[k].win_rate]) \div n,
         avg_sharpe |-> SumSeq([k \in 1..n |-> rs[k].sharpe_ratio]) \div n,
         avg_max_dd |-> SumSeq([k \in 1..n |-> rs[k].max_drawdown]) \div n,
         pnl_consistency |-> IF pnl_std > 0 THEN (avg_pnl * 100) \div pnl_std
                             ELSE Infinity,
         is_robust |-> is_robust(rs)]

\* one pass of the loop over the splits: the two frames are cut at the same
\* row numbers, and a backtester of its own runs on the validation cut.
\* run_backtest raises IndexError on an empty fine frame; it can trade only
\* on a coarse bar whose minute some fine row has reached.
WalkSplit ==
    /\ wf.pc = "loop"
    /\ Len(wf.splits) < wf.n_splits
    /\ LET i == Len(wf.splits)
           s == start_idx(i, wf.len_15m, wf.n_splits)
           e == end_idx(i, wf.len_15m, wf.n_splits)
           t == train_end(i, wf.len_15m, wf.n_splits)
           val_15m == Iloc(t, e, wf.len_15m)
           val_1m == Iloc(t, e, wf.len_1m)
           split == [start_idx |-> s, train_end |-> t, end_idx |-> e,
                     train_15m |-> Iloc(s, t, wf.len_15m),
                     train_1m |-> Iloc(s, t, wf.len_1m),
                     val_15m |-> val_15m, val_1m |-> val_1m,
                     backtest_15m |-> val_15m, backtest_1m |-> val_1m]
           admissible == { j \in val_15m : \E r \in val_1m :
                               Admissible(CoarseMinute(j), FineMinute(r, wf.freq)) }
       IN  IF val_1m = {}
           THEN wf' = [wf EXCEPT !.pc = "raised", !.splits = Append(@, split)]
           ELSE \E results \in (IF admissible = {} THEN {NoTradeResults}
                                ELSE WalkResults) :
                    wf' = [wf EXCEPT
                        !.splits = Append(@, split),
                        !.validation_results = Append(@, results)]
    /\ UNCHANGED <<backtest_vars, csv, roc, study, score>>

\* after the loop: the results are aggregated and returned
WalkReturn ==
    /\ wf.pc = "loop"
    /\ Len(wf.splits) = wf.n_splits
    /\ wf' = [wf EXCEPT !.pc = "returned",
                        !.returned = Aggregate(wf.validation_results)]
    /\ UNCHANGED <<backtest_vars, csv, roc, study, score>>

\* an input file of 1-minute rows (its last bar complete or not) or of
\* 15-minute rows, and any number of splits
InitWalk ==
    /\ BacktesterAtRest
    /\ csv = NotInUse
    /\ roc = NotInUse
    /\ study = NotInUse
    /\ score = NotInUse
    /\ \E n \in 1..MaxWalkBars, k \in 1..MaxSplits, freq \in {1, 15}, d \in {0, 7} :
           /\ freq = 15 => d = 0
           /\ wf = [pc |-> "loop", freq |-> freq, len_15m |-> n,
                    len_1m |-> IF freq = 15 THEN n ELSE 15 * n - d,
                    n_splits |-> k, splits |-> <<>>,
                    validation_results |-> <<>>, returned |-> NoResult]

NextWalk == WalkSplit \/ WalkReturn

SpecWalk == InitWalk /\ [][NextWalk]_vars

(***************************************************************************)
(* HyperparameterOptimizer.optimize.  The search loop is Optuna's          *)
(* study.optimize(objective_function, n_trials, n_jobs, timeout=3600),     *)
(* called without `catch`: with n_jobs = 1 the trials run one after the    *)
(* other in the calling thread; otherwise each trial is a job submitted to *)
(* a pool of n_jobs workers, at most n_jobs futures being kept, and the    *)
(* exception of a failed job is re-raised when its future is collected.    *)
(* A trial fails when objective_function raises, as it does at its first   *)
(* line when self.config has no 'parameters'.                              *)
(*                                                                         *)
(* study.trials holds the state of every trial (Optuna's RUNNING, COMPLETE *)
(* and FAIL; objective_function reports no intermediate value, so no trial *)
(* is PRUNED).  The loop does not depend on what a trial computes, and     *)
(* SpecSearch follows the states only, a trial being evaluated in one      *)
(* step.  Where study.detailed is set (SpecTrials, SpecRerun), study.runs  *)
(* holds what objective_function has done for each trial: its parameters   *)
(* once suggested, its backtester once constructed, the results of its     *)
(* backtest and its value once told to the study; the suggestion, the      *)
(* construction and the rest are then steps of their own, which the steps  *)
(* of other trials may come between.                                       *)
(***************************************************************************)
Running(trs) == { k \in 1..Len(trs) : trs[k] = "running" }

Unfinished(jobs) == { j \in 1..Len(jobs) : jobs[j] \in {"queued", "running"} }

\* an objective function that asks the pruner and is told to stop
EvaluatePruned(config_ok) == IF config_ok THEN "pruned" ELSE "fail"

\* what objective_function makes of a trial: it returns its value or raises;
\* it calls neither trial.report nor trial.should_prune, so TrialPruned is
\* never raised
Evaluate(config_ok) == IF config_ok THEN "complete" ELSE "fail"

\* the parameter sets of the search space, by number
ParamChoices == <<DefaultParams, TunedParams>>

\* results of run_backtest on self.data_15m and self.data_1m with the
\* parameter set p: a function of p alone, the data being fixed
BacktestOf(p) ==
    IF p = 1
    THEN [total_trades |-> 12, win_rate |-> 5833, sharpe_ratio |-> 60,
          total_pnl |-> 9000, max_drawdown |-> 100000]
    ELSE [total_trades |-> 4, win_rate |-> 2500, sharpe_ratio |-> -40,
          total_pnl |-> -3000, max_drawdown |-> 200000]

\* a sampler shown every trial, the running ones included
SnapshotWithRunning(st) ==
    { [number |-> st.runs[k].number, state |-> st.trials[k],
       params |-> st.runs[k].params, value |-> st.runs[k].value] :
          k \in 1..Len(st.trials) }

\* what the sampler reads of the history: the trials that are complete
Snapshot(st) ==
    { [number |-> st.runs[k].number, state |-> st.trials[k],
       params |-> st.runs[k].params, value |-> st.runs[k].value] :
          k \in { h \in 1..Len(st.trials) : st.trials[h] = "complete" } }

\* a sampler seeded afresh at every suggestion
ProposalsUnseeded(st) == 1..Len(ParamChoices)

\* what TPESampler(seed=42) may suggest.  With one worker the suggestion is
\* a function of the draws made since seeding and of the history read (the
\* function below stands for that of the sampler); with several workers
\* study.optimize reseeds the sampler in every worker, and any parameter set
\* may come.
Proposals(st) ==
    IF st.n_jobs = 1
    THEN { 1 + ((1 + st.draws
                 + Cardinality({ t \in Snapshot(st) : t.value > 0 })) % 2) }
    ELSE 1..Len(ParamChoices)

\* one backtester for all trials
BacktesterOfShared(k) == 1

\* the backtester of trial k: objective_function constructs its own
BacktesterOf(k) == k

\* study.ask(): a new trial, RUNNING, numbered by its place in the history
AskTrial(st) ==
    IF st.detailed
    THEN [st EXCEPT !.trials = Append(@, "running"),
                    !.runs = Append(@, [number |-> Len(st.trials), phase |-> "asked",
                                        params |-> 0, seen |-> {}, backtester |-> 0,
                                        results |-> NoResult, value |-> Absent])]
    ELSE [st EXCEPT !.trials = Append(@, "running")]

\* lines 674-715 and study.tell() for trial k: run_backtest on the shared
\* frames, which it sorts into frames of its own (sort_index returns a new
\* frame) and leaves as they are; the results come from the parameters the
\* trial's backtester holds; the trial is COMPLETE with the value scored, or
\* FAIL without a value when objective_function raised
TellTrial(st, k) ==
    IF ~st.detailed THEN [st EXCEPT !.trials[k] = Evaluate(st.config_ok)]
    ELSE IF ~st.config_ok
    THEN [st EXCEPT !.trials[k] = Evaluate(st.config_ok), !.runs[k].phase = "told"]
    ELSE LET b == st.runs[k].backtester
             results == BacktestOf(st.backtesters[b].params)
         IN  [st EXCEPT !.trials[k] = Evaluate(st.config_ok),
                        !.runs[k].phase = "told",
                        !.backtesters[b].trades = "recorded",
                        !.runs[k].results = results,
                        !.runs[k].value = objective(results)]

\* objective_function can come to its end for trial k: it raises at its
\* first line, or its backtester is constructed
Ended(st, k) ==
    st.detailed =>
        IF st.config_ok THEN st.runs[k].phase = "constructed"
        ELSE st.runs[k].phase = "asked"

\* study.best_params: the parameters of the first trial of the best value
BestParams(st) ==
    LET done == { k \in 1..Len(st.trials) : st.trials[k] = "complete" }
        best == CHOOSE k \in done :
                    \A h \in done : \/ st.runs[h].value < st.runs[k].value
                                    \/ st.runs[h].value = st.runs[k].value /\ h >= k
    IN  IF done = {} THEN 0 ELSE st.runs[best].params

\* the study optimize creates, before its first trial; self.data_15m and
\* self.data_1m are as load_data left them
NewStudy(n_trials, n_jobs, config_ok) ==
    [pc |-> "idle", n_trials |-> n_trials, n_jobs |-> n_jobs,
     config_ok |-> config_ok, timed_out |-> FALSE, trials |-> <<>>,
     job_of |-> <<>>, jobs |-> <<>>, futures |-> {}, detailed |-> FALSE]

\* the same, what objective_function does for each trial being followed
NewDetailedStudy(n_trials, n_jobs, config_ok) ==
    [pc |-> "idle", n_trials |-> n_trials, n_jobs |-> n_jobs,
     config_ok |-> config_ok, timed_out |-> FALSE, trials |-> <<>>,
     job_of |-> <<>>, jobs |-> <<>>, futures |-> {}, detailed |-> TRUE,
     runs |-> <<>>, draws |-> 0, data |-> "as loaded",
     backtesters |-> [b \in 1..n_trials |-> NoResult],
     best_params |-> 0, first |-> NoResult]

\* results = optimizer.optimize(n_trials, n_jobs), on a constructed optimizer
Optimize ==
    /\ ~csv.none /\ csv.optimizer
    /\ study.pc = "idle"
    /\ study' = [study EXCEPT !.pc = "searching"]
    /\ UNCHANGED <<backtest_vars, score, wf, csv, roc>>

\* more than 3600 s have passed since the search started
BudgetExceeded ==
    /\ study.pc \in {"searching", "draining", "aborting"}
    /\ ~study.timed_out
    /\ study' = [study EXCEPT !.timed_out = TRUE]
    /\ UNCHANGED <<backtest_vars, score, wf, csv, roc>>

\* n_jobs = 1: the next trial starts, both bounds having been tested
SeqStartTrial ==
    /\ study.pc = "searching" /\ study.n_jobs = 1
    /\ Running(study.trials) = {}
    /\ Len(study.trials) < study.n_trials
    /\ ~study.timed_out
    /\ study' = AskTrial(study)
    /\ UNCHANGED <<backtest_vars, score, wf, csv, roc>>

\* lines 630-664 for a running trial: its parameters are suggested by the
\* sampler, which reads the history
TrialPropose ==
    /\ study.pc \in {"searching", "draining", "aborting"}
    /\ study.detailed /\ study.config_ok
    /\ \E k \in Running(study.trials) :
           /\ study.runs[k].phase = "asked"
           /\ \E p \in Proposals(study) :
                  study' = [study EXCEPT !.runs[k].phase = "proposed",
                                         !.runs[k].params = p,
                                         !.runs[k].seen = Snapshot(study),
                                         !.draws = @ + 1]
    /\ UNCHANGED <<backtest_vars, score, wf, csv, roc>>

\* a backtester constructed before any parameter is suggested
TrialConstructUnproposed ==
    /\ study.pc \in {"searching", "draining", "aborting"}
    /\ study.detailed
    /\ \E k \in Running(study.trials) :
           /\ study.runs[k].phase \in {"asked", "proposed"}
           /\ study' = [study EXCEPT
                  !.runs[k].phase = "constructed",
                  !.runs[k].backtester = BacktesterOf(k),
                  !.backtesters[BacktesterOf(k)] =
                      [params |-> study.runs[k].params, trades |-> "none"]]
    /\ UNCHANGED <<backtest_vars, score, wf, csv, roc>>

\* line 673 for a running trial: a backtester of its own, holding its
\* parameters and no trade
TrialConstruct ==
    /\ study.pc \in {"searching", "draining", "aborting"}
    /\ study.detailed
    /\ \E k \in Running(study.trials) :
           /\ study.runs[k].phase = "proposed"
           /\ study' = [study EXCEPT
                  !.runs[k].phase = "constructed",
                  !.runs[k].backtester = BacktesterOf(k),
                  !.backtesters[BacktesterOf(k)] =
                      [params |-> study.runs[k].params, trades |-> "none"]]
    /\ UNCHANGED <<backtest_vars, score, wf, csv, roc>>

\* n_jobs = 1: the running trial ends; its exception leaves study.optimize
SeqFinishTrial ==
    /\ study.pc = "searching" /\ study.n_jobs = 1
    /\ \E k \in Running(study.trials) :
           /\ Ended(study, k)
           /\ study' = [TellTrial(study, k) EXCEPT
                  !.pc = IF study.config_ok THEN "searching" ELSE "raised"]
    /\ UNCHANGED <<backtest_vars, score, wf, csv, roc>>

\* n_jobs = 1: a bound is reached and study.optimize returns
SeqReturn ==
    /\ study.pc = "searching" /\ study.n_jobs = 1
    /\ Running(study.trials) = {}
    /\ Len(study.trials) >= study.n_trials \/ study.timed_out
    /\ study' = [study EXCEPT !.pc = "searched"]
    /\ UNCHANGED <<backtest_vars, score, wf, csv, roc>>

\* n_jobs > 1: a job is submitted while fewer than n_jobs futures are kept
ParSubmit ==
    /\ study.pc = "searching" /\ study.n_jobs > 1
    /\ ~study.timed_out
    /\ Len(study.jobs) < study.n_trials
    /\ Cardinality(study.futures) < study.n_jobs
    /\ study' = [study EXCEPT !.jobs = Append(@, "queued"),
                              !.futures = @ \cup {Len(study.jobs) + 1}]
    /\ UNCHANGED <<backtest_vars, score, wf, csv, roc>>

\* n_jobs > 1: n_jobs futures are kept; the loop waits for the first to
\* complete, collects the completed ones (a failed one re-raises) and
\* submits the next job
ParWait ==
    /\ study.pc = "searching" /\ study.n_jobs > 1
    /\ ~study.timed_out
    /\ Len(study.jobs) < study.n_trials
    /\ Cardinality(study.futures) >= study.n_jobs
    /\ LET completed == study.futures \ Unfinished(study.jobs)
       IN  /\ completed # {}
           /\ IF \E j \in completed : study.jobs[j] = "failed"
              THEN study' = [study EXCEPT !.futures = @ \ completed,
                                         !.pc = "aborting"]
              ELSE study' = [study EXCEPT
                       !.jobs = Append(@, "queued"),
                       !.futures = (@ \ completed) \cup {Len(study.jobs) + 1}]
    /\ UNCHANGED <<backtest_vars, score, wf, csv, roc>>

\* a worker that starts the trial of its job without testing the budget
ParJobStartUntested ==
    /\ study.pc \in {"searching", "draining", "aborting"} /\ study.n_jobs > 1
    /\ \E j \in 1..Len(study.jobs) :
           /\ study.jobs[j] = "queued"
           /\ study' = [AskTrial(study) EXCEPT !.jobs[j] = "running",
                                               !.job_of = Append(@, j)]
    /\ UNCHANGED <<backtest_vars, score, wf, csv, roc>>

\* n_jobs > 1: a worker takes a job; it tests the budget before its trial
ParJobStart ==
    /\ study.pc \in {"searching", "draining", "aborting"} /\ study.n_jobs > 1
    /\ \E j \in 1..Len(study.jobs) :
           /\ study.jobs[j] = "queued"
           /\ IF study.timed_out
              THEN study' = [study EXCEPT !.jobs[j] = "done"]
              ELSE study' = [AskTrial(study) EXCEPT !.jobs[j] = "running",
                                                   !.job_of = Append(@, j)]
    /\ UNCHANGED <<backtest_vars, score, wf, csv, roc>>

\* n_jobs > 1: the trial of a job ends; its exception is kept in the future
ParJobFinish ==
    /\ study.pc \in {"searching", "draining", "aborting"} /\ study.n_jobs > 1
    /\ \E k \in Running(study.trials) :
           /\ Ended(study, k)
           /\ study' = [TellTrial(study, k) EXCEPT
                  !.jobs[study.job_of[k]] = IF study.config_ok THEN "done"
                                            ELSE "failed"]
    /\ UNCHANGED <<backtest_vars, score, wf, csv, roc>>

\* n_jobs > 1: a bound is reached and the loop over the submissions ends
ParLoopExit ==
    /\ study.pc = "searching" /\ study.n_jobs > 1
    /\ Len(study.jobs) >= study.n_trials \/ study.timed_out
    /\ study' = [study EXCEPT !.pc = "draining"]
    /\ UNCHANGED <<backtest_vars, score, wf, csv, roc>>

\* n_jobs > 1: the pool is shut down once every job has ended; then
\* study.optimize returns, or the exception collected leaves it
ParDrained ==
    /\ study.pc \in {"draining", "aborting"}
    /\ Unfinished(study.jobs) = {}
    /\ study' = [study EXCEPT !.pc = IF study.pc = "draining" THEN "searched"
                                     ELSE "raised"]
    /\ UNCHANGED <<backtest_vars, score, wf, csv, roc>>

\* the rest of optimize: study.best_params raises ValueError when no trial
\* is complete; otherwise the results are returned
FinishOptimize ==
    /\ study.pc = "searched"
    /\ LET over == IF \E k \in 1..Len(study.trials) : study.trials[k] = "complete"
                   THEN "returned" ELSE "raised"
       IN  IF study.detailed
           THEN study' = [study EXCEPT !.pc = over,
                                       !.best_params = BestParams(study)]
           ELSE study' = [study EXCEPT !.pc = over]
    /\ UNCHANGED <<backtest_vars, score, wf, csv, roc>>

\* optimize is called once more on the same optimizer: a new study, a
\* sampler seeded anew; what the first call left is kept for comparison
OptimizeAgain ==
    /\ study.pc \in {"returned", "raised"}
    /\ study.detailed
    /\ study.first = NoResult
    /\ study' = [NewDetailedStudy(study.n_trials, study.n_jobs, study.config_ok) EXCEPT
           !.pc = "searching",
           !.first = [trials |-> study.trials,
                      params |-> [k \in 1..Len(study.runs) |-> study.runs[k].params],
                      value |-> [k \in 1..Len(study.runs) |-> study.runs[k].value],
                      best_params |-> study.best_params]]
    /\ UNCHANGED <<backtest_vars, score, wf, csv, roc>>

NewCsv(columns, output_file) ==
    [none |-> FALSE, columns |-> columns, output_file |-> output_file,
     loaded |-> "no", optimizer |-> FALSE, prepared |-> "no", written |-> "no"]

\* a well-formed input file, any trial budget, worker count and configuration
InitSearch ==
    /\ BacktesterAtRest
    /\ roc = NotInUse
    /\ score = NotInUse
    /\ wf = NotInUse
    /\ csv \in { NewCsv(Columns \ ({"time"} \cup d), o) : d \in SUBSET {"ts"}, o \in BOOLEAN }
    /\ study \in { NewStudy(n, j, c) : n \in 0..MaxTrials, j \in 1..MaxJobs, c \in BOOLEAN }

\* an input file of any columns
InitLoad ==
    /\ BacktesterAtRest
    /\ roc = NotInUse
    /\ score = NotInUse
    /\ wf = NotInUse
    /\ csv \in { NewCsv(cols, o) : cols \in SUBSET Columns, o \in BOOLEAN }
    /\ study \in { NewStudy(MaxTrials, j, TRUE) : j \in 1..MaxJobs }

SearchStep ==
    \/ Optimize \/ SeqStartTrial \/ SeqFinishTrial \/ SeqReturn
    \/ ParSubmit \/ ParWait \/ ParJobStart \/ ParJobFinish \/ ParLoopExit
    \/ ParDrained \/ FinishOptimize

NextSearch == ConstructOptimizer \/ PrepareData \/ BudgetExceeded \/ SearchStep

SpecLoad == InitLoad /\ [][NextSearch]_vars

SpecSearch == InitSearch /\ [][NextSearch]_vars

\* every step of the loop and every trial in flight is eventually taken
SpecSearchFair == SpecSearch /\ WF_vars(ConstructOptimizer) /\ WF_vars(SearchStep)

\* trials to evaluate and workers where each trial is followed
MaxEvals == 3
MaxWorkers == 2

\* a loaded optimizer, any trial budget, worker count and configuration
InitTrials ==
    /\ BacktesterAtRest
    /\ roc = NotInUse
    /\ score = NotInUse
    /\ wf = NotInUse
    /\ csv = [NewCsv(Columns \ {"time"}, FALSE) EXCEPT !.loaded = "loaded",
                                                        !.optimizer = TRUE]
    /\ study \in { NewDetailedStudy(n, j, c) :
                       n \in 0..MaxEvals, j \in 1..MaxWorkers, c \in BOOLEAN }

TrialStep == TrialPropose \/ TrialConstruct

NextTrials == BudgetExceeded \/ SearchStep \/ TrialStep

SpecTrials == InitTrials /\ [][NextTrials]_vars

\* a loaded optimizer and one worker
InitRerun ==
    /\ BacktesterAtRest
    /\ roc = NotInUse
    /\ score = NotInUse
    /\ wf = NotInUse
    /\ csv = [NewCsv(Columns \ {"time"}, FALSE) EXCEPT !.loaded = "loaded",
                                                        !.optimizer = TRUE]
    /\ study \in { NewDetailedStudy(n, 1, c) : n \in 0..MaxEvals, c \in BOOLEAN }

\* two calls of optimize with one worker, one after the other
NextRerun ==
    \/ BudgetExceeded \/ Optimize \/ SeqStartTrial \/ SeqFinishTrial \/ SeqReturn
    \/ FinishOptimize \/ TrialStep \/ OptimizeAgain

SpecRerun == InitRerun /\ [][NextRerun]_vars

(***************************************************************************)
(* Properties                                                              *)
(***************************************************************************)
InRun == pc \in {"admit", "exits", "metrics", "done"}

\* timestamp of the fine candle of the current step
CurTs == df_1m[candle_idx].ts

\* number of fine candles whose step is complete
Processed ==
    IF pc \in {"metrics", "done"} THEN candle_idx
    ELSE IF pc \in {"admit", "exits"} THEN candle_idx - 1
    ELSE 0

SeqRange(s) == { s[k] : k \in 1..Len(s) }

\* C1: no lookahead.  Every coarse bar entry-evaluated in a fine step, every
\* coarse bar admitted so far and the bar behind every opened position is
\* timestamped at or before the fine timestamp of the step that used it; exit
\* evaluations and trades use no fine candle later than the current one.
NoLookahead ==
    InRun =>
        /\ \A k \in 1..Len(step_entry_evals) : step_entry_evals[k] <= CurTs
        /\ \A k \in 1..last_15m_idx : df_15m[k].ts <= CurTs
        /\ \A k \in 1..Len(opened) : opened[k].bar_ts <= df_1m[opened[k].step].ts
        /\ ~last_exit.none =>
               \E k \in 1..candle_idx : last_exit.candle = df_1m[k]
        /\ \A k \in 1..Len(trades) :
               \E m \in 1..candle_idx :
                   /\ trades[k].exit_timestamp = df_1m[m].ts
                   /\ trades[k].exit_price = df_1m[m].close

\* C1 witness: an entry was evaluated in a step while a later coarse bar and a
\* later fine candle exist
NoLookaheadWitness ==
    /\ pc = "exits"
    /\ step_entry_evals # <<>>
    /\ last_15m_idx < Len(df_15m)
    /\ candle_idx < Len(df_1m)

\* C2: within a step the coarse bars are entry-evaluated in ascending
\* timestamp order, no exit evaluation of the step precedes an entry
\* evaluation of the step, and once the exit loop of the step is over every
\* position opened in the step has been exit-evaluated in it.
EntriesBeforeExits ==
    InRun =>
        /\ \A a, b \in 1..Len(step_entry_evals) :
               a < b => step_entry_evals[a] < step_entry_evals[b]
        /\ pc = "admit" => step_exit_evals = <<>>
        /\ (pc \in {"metrics", "done"} \/ (pc = "exits" /\ pos_idx > Len(positions))) =>
               \A k \in 1..Len(opened) :
                   opened[k].step = candle_idx => k \in SeqRange(step_exit_evals)

\* C2 witness: two bars entry-evaluated in one step, both positions opened
\* in it and then exit-evaluated in it
EntriesBeforeExitsWitness ==
    /\ pc = "exits"
    /\ Len(step_entry_evals) >= 2
    /\ Len(opened) >= 2
    /\ \A k \in 1..Len(opened) : opened[k].step = candle_idx
    /\ Len(step_exit_evals) >= 2

\* C3: every Trade's realized_pnl is (exit_value - cost_basis) * leverage
\* less the entry fee charged for that position and less its exit fee.
FeeConservation ==
    \A k \in 1..Len(trades) :
        trades[k].realized_pnl =
            (trades[k].exit_value - trades[k].cost_basis) * trades[k].leverage
            - opened[trades[k].pid].entry_fee - trades[k].exit_fee

\* C4: after an exit evaluation that leaves the position open, its stop-loss
\* is at least highest_price * (1 - trailing_pct), trailing_pct being
\* 0.8 * stopLossPct.
TrailingStopFollowsHighest ==
    (pc = "exits" /\ ~last_exit.none /\ last_exit.exit_reason = "none") =>
        last_exit.position.stop_loss >=
            GetOr(last_exit.position.highest_price, last_exit.position.entry_price)
                * (100000 - 8 * params.stopLossPct)

\* C5: the stop-loss of a position never decreases from one state to the next.
StopLossNeverDecreases ==
    [][\A a \in 1..Len(positions), b \in 1..Len(positions') :
           positions[a].pid = positions'[b].pid =>
               positions'[b].stop_loss >= positions[a].stop_loss]_vars

\* C5 witness: an exit evaluation raised the stop-loss of a position that
\* came with a stop-loss above its entry price less the stop distance
StopLossRaisedWitness ==
    /\ pc \in {"probe", "probed"}
    /\ ~last_exit.none
    /\ last_exit.position.stop_loss > last_exit.before.stop_loss
    /\ last_exit.before.stop_loss = 9950000

\* C6 as stated: after N candles the equity sequence has N entries, the i-th
\* carrying the timestamp of the i-th candle.
EquityOnePerCandle ==
    InRun =>
        /\ Len(equity_curve) = Processed
        /\ \A k \in 1..Len(equity_curve) : equity_curve[k][1] = df_1m[k].ts

\* C6 amended: after N candles the equity sequence has N + 1 entries: the
\* seed (timestamp of the first fine candle, initial capital), then one entry
\* per processed candle, in candle order.
EquitySeedThenOnePerCandle ==
    InRun =>
        /\ Len(equity_curve) = Processed + 1
        /\ equity_curve[1] = <<df_1m[1].ts, initial_capital>>
        /\ \A k \in 1..Processed : equity_curve[k + 1][1] = df_1m[k].ts

\* C6 witness: a finished run of at least two candles
EquityWitness ==
    /\ pc = "done"
    /\ Len(df_1m) >= 2
    /\ Len(equity_curve) = Len(df_1m) + 1

\* the scenario of C7: default parameters and a single coarse bar whose ROC,
\* volume multiple and spread meet the default thresholds, admitted in the run
ScenarioRun ==
    /\ pc = "done"
    /\ params = DefaultParams
    /\ Len(df_15m) = 1
    /\ df_15m[1].roc_5m >= 50
    /\ df_15m[1].vol_mult >= 20
    /\ df_15m[1].spread_bps <= 80
    /\ df_15m[1].ts <= df_1m[Len(df_1m)].ts

\* the take-profit level of the scenario's position
ScenarioTakeProfit ==
    df_15m[1].close * (100000 + 10 * Max(params.takeProfitPct, 3 * params.stopLossPct))

\* from the entry step on the price never falls and at step k it is at or
\* above the take-profit level
RisesPastTakeProfit(k) ==
    /\ df_1m[k].close * 100000 >= ScenarioTakeProfit
    /\ df_1m[opened[1].step].close >= df_15m[1].close
    /\ \A m \in opened[1].step..(k - 1) : df_1m[m].close <= df_1m[m + 1].close

\* no Trade was recorded before step k
OpenUntil(k) == \A n \in 1..Len(trades) : trades[n].exit_timestamp >= df_1m[k].ts

\* C7 as stated: one position is opened, and on every rising path that gets
\* past the take-profit level the Trade is a take_profit with positive PnL.
ScenarioTakeProfitAlways ==
    ScenarioRun =>
        /\ Len(opened) = 1
        /\ (\E k \in opened[1].step..Len(df_1m) : RisesPastTakeProfit(k)) =>
               /\ Len(trades) = 1
               /\ trades[1].exit_reason = "take_profit"
               /\ trades[1].realized_pnl > 0

\* C7 amended: one position is opened, and on a rising path that gets past
\* the take-profit level at a step where the position is still open, the
\* Trade is recorded at that step as take_profit with positive PnL.
ScenarioTakeProfitWhileOpen ==
    ScenarioRun =>
        /\ Len(opened) = 1
        /\ \A k \in opened[1].step..Len(df_1m) :
               (RisesPastTakeProfit(k) /\ OpenUntil(k)) =>
                   /\ Len(trades) = 1
                   /\ trades[1].exit_timestamp = df_1m[k].ts
                   /\ trades[1].exit_reason = "take_profit"
                   /\ trades[1].realized_pnl > 0

\* C7 witness: the price got past the take-profit level two steps after the
\* entry step, with the position still open, and the Trade is a take_profit
ScenarioWitness ==
    /\ ScenarioRun
    /\ Len(opened) = 1
    /\ \E k \in (opened[1].step + 1)..Len(df_1m) :
           RisesPastTakeProfit(k) /\ OpenUntil(k)
    /\ Len(trades) = 1
    /\ trades[1].exit_reason = "take_profit"

\* C8: check_exit_conditions returns the exit of the first rule that holds,
\* in the order take-profit, stop-loss, time-based profit exit, time-based
\* loss exit, momentum loss / RSI overbought, and no exit exactly when none
\* holds.
FirstMatchingRuleWins ==
    (pc \in {"exits", "metrics", "done"} /\ ~last_exit.none) =>
        LET p == last_exit.position
            price == last_exit.price
            age == last_exit.candle.ts - p.entry_timestamp
            r == last_exit.exit_reason
            tp == price * 100000 >= p.take_profit
            sl == price * 100000 <= p.stop_loss
            tprofit == age >= 10 /\ price > p.entry_price
            tloss == age >= 30 /\ price < p.entry_price
            signal == last_exit.candle.roc_1m < -20 \/ last_exit.candle.rsi_14 > 85
        IN  /\ r = "take_profit" <=> tp
            /\ r \in {"stop_loss", "trailing_stop_loss"} <=> (~tp /\ sl)
            /\ r = "time_based_profit_exit" <=> (~tp /\ ~sl /\ tprofit)
            /\ r = "time_based_loss_exit" <=> (~tp /\ ~sl /\ ~tprofit /\ tloss)
            /\ r \in {"momentum_loss", "rsi_overbought"} <=>
                   (~tp /\ ~sl /\ ~tprofit /\ ~tloss /\ signal)
            /\ r = "none" <=> (~tp /\ ~sl /\ ~tprofit /\ ~tloss /\ ~signal)

\* C8 witness: a time-based profit exit taken on a candle that also carries
\* a reversal signal
FirstMatchingRuleWitness ==
    /\ pc = "exits"
    /\ ~last_exit.none
    /\ last_exit.exit_reason = "time_based_profit_exit"
    /\ last_exit.candle.rsi_14 > 85

\* C9: a position closes at most once.  No two Trades belong to the same
\* position, no position is exit-evaluated twice in a step or in a step after
\* the one of its Trade, and between steps no open position has a Trade.
ClosesAtMostOnce ==
    InRun =>
        /\ \A a, b \in 1..Len(trades) : a # b => trades[a].pid # trades[b].pid
        /\ \A a, b \in 1..Len(step_exit_evals) :
               a # b => step_exit_evals[a] # step_exit_evals[b]
        /\ \A k \in 1..Len(trades) :
               trades[k].pid \in SeqRange(step_exit_evals) =>
                   trades[k].exit_timestamp = CurTs
        /\ pc \in {"admit", "metrics", "done"} =>
               \A a \in 1..Len(positions), k \in 1..Len(trades) :
                   positions[a].pid # trades[k].pid

\* C9 witness: a step exit-evaluates an open position after an earlier step
\* recorded the Trade of another position
ClosesAtMostOnceWitness ==
    /\ pc = "exits"
    /\ step_exit_evals # <<>>
    /\ \E k \in 1..Len(trades) : trades[k].exit_timestamp < CurTs

\* C10: the exit timestamp of every Trade is at or after its entry timestamp.
ExitNotBeforeEntry ==
    \A k \in 1..Len(trades) :
        trades[k].exit_timestamp >= trades[k].entry_timestamp

\* C10 witness: a Trade closed in the very step of its entry, on a coarse bar
\* timestamped exactly at the fine timestamp
ExitNotBeforeEntryWitness ==
    \E k \in 1..Len(trades) :
        trades[k].exit_timestamp = trades[k].entry_timestamp

\* number of the nine sub-conditions that hold on a coarse bar
Satisfied(bar) == Cardinality({k \in 1..9 : EntryConditions(bar, params)[k]})

\* C11: the admission of a coarse bar opens a position (and charges its entry
\* fee to capital and to fees_paid) if and only if at least 2 of the nine
\* sub-conditions hold on the bar; with fewer than 2, positions, fees_paid and
\* capital are left as they were.
EntryIffTwoConditions ==
    [][(pc = "admit" /\ last_15m_idx' = last_15m_idx + 1) =>
          LET bar == df_15m[last_15m_idx + 1]
          IN  IF Satisfied(bar) >= 2
              THEN /\ Len(positions') = Len(positions) + 1
                   /\ positions'[Len(positions')].entry_timestamp = bar.ts
                   /\ fees_paid' - fees_paid = current_capital - current_capital'
                   /\ fees_paid' > fees_paid
              ELSE /\ positions' = positions
                   /\ fees_paid' = fees_paid
                   /\ current_capital' = current_capital]_vars

\* C11 witness: a position opened on a bar with exactly 2 sub-conditions
EntryIffTwoConditionsWitness ==
    /\ pc = "exits"
    /\ Len(df_15m) = 1
    /\ Satisfied(df_15m[1]) = 2
    /\ Len(positions) = 1

\* C12: when a position is opened its take-profit distance is at least three
\* times its stop-loss distance.
RewardAtLeastThreeTimesRisk ==
    [][Len(positions') = Len(positions) + 1 =>
          LET p == positions'[Len(positions')]
          IN  p.take_profit - 100000 * p.entry_price
                  >= 3 * (100000 * p.entry_price - p.stop_loss)]_vars

\* C12 witness: a position opened under a takeProfitPct below 3 * stopLossPct
RewardAtLeastThreeTimesRiskWitness ==
    /\ pc = "exits"
    /\ Len(positions) = 1
    /\ params.takeProfitPct < 3 * params.stopLossPct

\* C13 as stated: the size of a position when it is opened is
\* (equity * riskPct/100 * leverage) / entry_price, equity being the realized
\* capital plus the unrealized PnL of the positions open at that moment.
SizedOnTotalEquity ==
    \A k \in 1..Len(opened) :
        LET equity == opened[k].capital + opened[k].unrealized
        IN  opened[k].size =
                ((((equity * params.riskPct) \div 100) * params.leverage) * 100)
                    \div opened[k].entry_price

\* C13 amended: the size of a position when it is opened is
\* (capital * riskPct/100 * leverage) / entry_price, capital being the realized
\* capital at that moment; unrealized PnL of open positions does not count.
SizedOnRealizedCapital ==
    \A k \in 1..Len(opened) :
        opened[k].size =
            ((((opened[k].capital * params.riskPct) \div 100) * params.leverage) * 100)
                \div opened[k].entry_price

\* C13 witness: a position was opened in this step while a position of an
\* earlier step is open at a price other than its entry price
SizedOnRealizedCapitalWitness ==
    /\ pc = "exits"
    /\ pos_idx = 1
    /\ Len(positions) >= 2
    /\ opened[positions[1].pid].step < candle_idx
    /\ opened[positions[Len(positions)].pid].step = candle_idx
    /\ opened[positions[Len(positions)].pid].unrealized # 0

\* C14: a run that recorded no Trade returns win_rate, total_pnl,
\* sharpe_ratio, max_drawdown and profit_factor of 0 and a final_equity equal
\* to the initial capital, whatever entries it took and prices it saw.
NoTradeRunIsDegenerate ==
    (pc = "done" /\ trades = <<>>) =>
        /\ result.win_rate = 0
        /\ result.total_pnl = 0
        /\ result.sharpe_ratio = 0
        /\ result.max_drawdown = 0
        /\ result.profit_factor = 0
        /\ result.final_equity = initial_capital

\* C14 witness: a finished run without a Trade that opened a position and
\* whose last equity point is below the initial capital
NoTradeRunIsDegenerateWitness ==
    /\ pc = "done"
    /\ trades = <<>>
    /\ opened # <<>>
    /\ equity_curve[Len(equity_curve)][2] < initial_capital

\* highest equity value among the first k points of the curve
RunningPeak(k) ==
    CHOOSE e \in { equity_curve[j][2] : j \in 1..k } :
        \A j \in 1..k : equity_curve[j][2] <= e

\* the largest relative decline from the running peak over the equity curve,
\* in 1/1000000
LargestDecline ==
    LET declines == { MulDiv(RunningPeak(k) - equity_curve[k][2], 1000, 1000,
                             RunningPeak(k)) : k \in 1..Len(equity_curve) }
    IN  CHOOSE d \in declines : \A e \in declines : e <= d

NonNegativeEquity == \A k \in 1..Len(equity_curve) : equity_curve[k][2] >= 0

\* C15 as stated: the max_drawdown of a run with non-negative equity values
\* lies in [0, 1] and is the largest (running peak - equity) / running peak
\* over the equity curve.
DrawdownIsLargestDecline ==
    (pc = "done" /\ NonNegativeEquity) =>
        /\ result.max_drawdown \in 0..1000000
        /\ result.max_drawdown = LargestDecline

\* C15 amended: the max_drawdown of a run with non-negative equity values
\* lies in [0, 1]; for a run that recorded a Trade it is the largest
\* (running peak - equity) / running peak over the equity curve, and for a
\* run without a Trade it is 0 whatever the equity curve.
DrawdownIsLargestDeclineOfTradingRun ==
    (pc = "done" /\ NonNegativeEquity) =>
        /\ result.max_drawdown \in 0..1000000
        /\ trades # <<>> => result.max_drawdown = LargestDecline
        /\ trades = <<>> => result.max_drawdown = 0

\* C15 witness: a run with a Trade whose equity rose above the initial
\* capital and then fell below that peak
DrawdownWitness ==
    /\ pc = "done"
    /\ trades # <<>>
    /\ \E a, b \in 1..Len(equity_curve) :
           /\ a < b
           /\ equity_curve[a][2] > initial_capital
           /\ equity_curve[b][2] < equity_curve[a][2]
    /\ result.max_drawdown > 0

IsSortedByTs(s) == \A a, b \in 1..Len(s) : a < b => s[a].ts <= s[b].ts

\* one of the two streams was handed over with its timestamps out of order
OutOfOrder == ~IsSortedByTs(given.df_1m) \/ ~IsSortedByTs(given.df_15m)

RocZeroOnNonPositiveReference ==
    roc.called =>
        ((roc.current_idx < roc.periods
            \/ roc.df[roc.current_idx - roc.periods + 1] <= 0) => roc.value = 0)

\* C17: an input file that lacks one of open, high, low, close, volume is
\* rejected before any simulation: load_data raises ValueError, so that no
\* optimizer object exists and no search or trial is started, and
\* validate_and_prepare_data returns False and writes no file.
MissingColumnsRejected ==
    (~csv.none /\ {"open", "high", "low", "close", "volume"} \ csv.columns # {}) =>
        /\ csv.loaded \in {"no", "ValueError"}
        /\ ~csv.optimizer
        /\ study.pc = "idle" /\ study.trials = <<>> /\ study.jobs = <<>>
        /\ csv.prepared \in {"no", "False"}
        /\ csv.written = "no"

\* C17 witness: both loaders have been run on a file that has a timestamp
\* column and every required column but volume
MissingColumnsRejectedWitness ==
    /\ ~csv.none
    /\ csv.columns = Columns \ {"volume"}
    /\ csv.loaded = "ValueError"
    /\ csv.prepared = "False"

\* study.optimize is over: it returned or an exception left it
SearchOver == study.pc \in {"searched", "returned", "raised"}

\* C19: the search never starts more than n_trials trials, with one worker
\* or several; it starts no trial once the budget of 3600 s is exceeded; and
\* a search that has started is eventually over, every trial in flight
\* coming to its end.
SearchStopsAtFirstBound ==
    /\ [](Len(study.trials) <= study.n_trials)
    /\ [][Len(study.trials') > Len(study.trials) => ~study.timed_out]_vars
    /\ (study.pc = "searching") ~> SearchOver

\* C19 witness: a search with several workers ended by the budget after it
\* had started some but not all of its n_trials trials
SearchStopsAtFirstBoundWitness ==
    /\ study.pc = "searched"
    /\ study.n_jobs > 1
    /\ study.timed_out
    /\ Len(study.trials) >= 1
    /\ Len(study.trials) < study.n_trials

\* C20 as stated: a trial that failed does not abort the search: when the
\* search is over, every one of the n_trials trials has been started unless
\* the budget was exceeded.
FailedTrialDoesNotAbort ==
    (\E k \in 1..Len(study.trials) : study.trials[k] = "fail") =>
        /\ study.pc # "aborting"
        /\ SearchOver => (Len(study.trials) >= study.n_trials \/ study.timed_out)

\* C29: the consistency bonus is non-zero only when the backtest made more
\* than 10 trades and its win rate is positive; with 10 trades or fewer the
\* bonus is 0 and the objective is the weighted sum of max(0, Sharpe), the
\* win rate and max(0, profit / 5000) minus the drawdown penalty.
BonusOnlyAboveTenTrades ==
    score.called =>
        LET r == score.results
        IN  /\ score.bonus # 0 => (r.total_trades > 10 /\ r.win_rate > 0)
            /\ r.total_trades <= 10 =>
                   /\ score.bonus = 0
                   /\ score.value = 50 * r.win_rate
                                    + 1500 * Max(0, r.sharpe_ratio)
                                    + Max(0, r.total_pnl) \div 10
                                    - r.max_drawdown

\* C29 witness: a backtest of exactly 10 trades, some of them won, has been
\* scored
BonusOnlyAboveTenTradesWitness ==
    /\ score.called
    /\ score.results.total_trades = 10
    /\ score.results.win_rate > 0
    /\ score.results.total_pnl > 0

\* C30 as stated: every entry signal sets up a trailing stop, so every
\* stop-loss exit of a position opened by run_backtest carries the reason
\* trailing_stop_loss; no Trade of run_backtest has the reason stop_loss.
StopLossExitsAreTrailing ==
    \A k \in 1..Len(trades) : trades[k].exit_reason # "stop_loss"

\* the splits walk_forward_validation has cut so far
WalkWindows ==
    { <<i, w>> \in (1..Len(wf.splits)) \X {"train", "val"} : TRUE }

InWindow(idx, iw) ==
    LET sp == wf.splits[iw[1]]
    IN  IF iw[2] = "train" THEN sp.start_idx <= idx /\ idx < sp.train_end
        ELSE sp.train_end <= idx /\ idx < sp.end_idx

\* C26: for n coarse bars and K <= n splits the K segments are contiguous,
\* disjoint and in time order; each is a leading training window followed by
\* a trailing validation window that is not empty; every segment but the last
\* has n div K bars and the last ends at bar n - 1; once all are cut, every
\* bar index 0..n-1 lies in exactly one training or validation window; and
\* the coarse frame handed to the backtest of a split is its validation
\* window and nothing else.
WalkSegmentsPartition ==
    wf.len_15m >= wf.n_splits =>
        /\ wf.pc # "raised"
        /\ \A i \in 1..Len(wf.splits) :
               LET sp == wf.splits[i]
               IN  /\ sp.start_idx = (IF i = 1 THEN 0 ELSE wf.splits[i - 1].end_idx)
                   /\ sp.start_idx <= sp.train_end
                   /\ sp.train_end < sp.end_idx
                   /\ i < wf.n_splits =>
                          sp.end_idx - sp.start_idx = wf.len_15m \div wf.n_splits
                   /\ i = wf.n_splits => sp.end_idx = wf.len_15m
                   /\ sp.train_15m = { j \in 0..(wf.len_15m - 1) :
                                          InWindow(j, <<i, "train">>) }
                   /\ sp.backtest_15m = { j \in 0..(wf.len_15m - 1) :
                                             InWindow(j, <<i, "val">>) }
                   /\ \A h \in 1..(i - 1) : \A a \in wf.splits[h].train_15m \cup wf.splits[h].val_15m :
                          \A b \in sp.train_15m \cup sp.val_15m :
                              CoarseMinute(a) < CoarseMinute(b)
        /\ wf.pc = "returned" =>
               \A idx \in 0..(wf.len_15m - 1) :
                   Cardinality({ iw \in WalkWindows : InWindow(idx, iw) }) = 1

\* C26 witness: 7 bars cut into 3 splits, the last of which has absorbed the
\* remainder, and all three backtested
WalkSegmentsPartitionWitness ==
    /\ wf.pc = "returned"
    /\ wf.len_15m = 7 /\ wf.n_splits = 3
    /\ wf.splits[3].end_idx - wf.splits[3].start_idx = 3
    /\ wf.splits[3].train_15m # {}

\* C27 as stated: the fine frame handed to the backtest of a split covers the
\* time span of its coarse validation window: every coarse bar handed to
\* the backtest has its minute between the first and the last minute of the
\* fine frame, and so can be admitted.
FineWindowCoversCoarseWindow ==
    \A i \in 1..Len(wf.splits) :
        LET sp == wf.splits[i]
        IN  \A j \in sp.backtest_15m :
                /\ \E r \in sp.backtest_1m : FineMinute(r, wf.freq) <= CoarseMinute(j)
                /\ \E r \in sp.backtest_1m : CoarseMinute(j) <= FineMinute(r, wf.freq)

\* C28: is_robust is true exactly when the mean Sharpe ratio of the splits
\* is above 0.5, their mean win rate above 0.55 and their mean maximum
\* drawdown below 0.15, a mean equal to its threshold failing the test.
RobustIffAllThree ==
    wf.pc = "returned" =>
        LET rs == wf.validation_results
            K == Len(rs)
            SumSharpe == SumSeq([k \in 1..K |-> rs[k].sharpe_ratio])
            SumWinRate == SumSeq([k \in 1..K |-> rs[k].win_rate])
            SumDrawdown == SumSeq([k \in 1..K |-> rs[k].max_drawdown])
        IN  wf.returned.is_robust <=>
                (/\ 2 * SumSharpe > 100 * K
                 /\ 100 * SumWinRate > 55 * 10000 * K
                 /\ 100 * SumDrawdown < 15 * 1000000 * K)

\* C28 witness: splits of unequal results whose means pass the three tests
RobustIffAllThreeWitness ==
    /\ wf.pc = "returned"
    /\ wf.returned.is_robust
    /\ wf.n_splits >= 2
    /\ wf.validation_results[1] # wf.validation_results[2]

\* C21 as stated: optimize always returns a result to its caller and never
\* raises, whatever became of its trials, a search without any completed
\* trial included.
OptimizeAlwaysReturns == study.pc # "raised"

\* the trials of the study, by their place in the history
Trials == 1..Len(study.trials)

Terminal(k) == study.trials[k] # "running"

HistoryConsistent ==
    /\ [](/\ \A a, b \in Trials :
                a # b => study.runs[a].number # study.runs[b].number
          /\ \A k \in Trials : \A t \in study.runs[k].seen :
                /\ t.state = "complete"
                /\ t.params # 0
                /\ t.value # Absent
                /\ \E h \in Trials :
                       /\ study.runs[h].number = t.number
                       /\ study.trials[h] = t.state
                       /\ study.runs[h].params = t.params
                       /\ study.runs[h].value = t.value)
    /\ [][/\ Len(study.trials') >= Len(study.trials)
          /\ \A k \in Trials :
                Terminal(k) =>
                    /\ study.trials'[k] = study.trials[k]
                    /\ study.runs'[k].number = study.runs[k].number
                    /\ study.runs'[k].params = study.runs[k].params
                    /\ study.runs'[k].value = study.runs[k].value]_vars

\* C23 witness: with two workers, a proposal that has read a completed trial
\* while another trial was running
HistoryConsistentWitness ==
    /\ study.n_jobs > 1
    /\ \E a, b \in Trials :
           /\ a # b
           /\ study.runs[a].seen # {}
           /\ study.runs[a].phase = "proposed"
           /\ study.trials[b] = "running"
           /\ study.runs[b].phase = "constructed"

\* a call of optimize is over
OptimizeOver == study.pc \in {"returned", "raised"}

TrialsIsolated ==
    /\ study.data = "as loaded"
    /\ \A a, b \in Trials :
           (a # b /\ study.runs[a].backtester # 0) =>
               study.runs[a].backtester # study.runs[b].backtester
    /\ \A k \in Trials :
           study.trials[k] = "complete" =>
               /\ study.runs[k].results = BacktestOf(study.runs[k].params)
               /\ study.runs[k].value = objective(BacktestOf(study.runs[k].params))

\* C25 witness: two complete trials of different parameters that ran at the
\* same time, neither having been complete when the other was proposed
TrialsIsolatedWitness ==
    \E a, b \in Trials :
        /\ a # b
        /\ study.trials[a] = "complete" /\ study.trials[b] = "complete"
        /\ study.runs[a].params # study.runs[b].params
        /\ \A t \in study.runs[a].seen : t.number # study.runs[b].number
        /\ \A t \in study.runs[b].seen : t.number # study.runs[a].number

\* C37: no trial ever has the status pruned, with one worker or several, and
\* when the search is over every trial that started running is complete or
\* failed.
NoTrialPruned ==
    /\ \A k \in 1..Len(study.trials) : study.trials[k] # "pruned"
    /\ SearchOver =>
           \A k \in 1..Len(study.trials) : study.trials[k] \in {"complete", "fail"}

\* C37 witness: a search with several workers that is over, all of its
\* trials complete
NoTrialPrunedWitness ==
    /\ study.pc = "returned"
    /\ study.n_jobs > 1
    /\ Len(study.trials) >= 2
    /\ \A k \in 1..Len(study.trials) : study.trials[k] = "complete"

\* sum of the entry fees of the first n positions opened
RECURSIVE SumEntryFees(_)
SumEntryFees(n) == IF n = 0 THEN 0 ELSE opened[n].entry_fee + SumEntryFees(n - 1)

\* sum of the realized PnL of the Trades recorded before the fine timestamp t
RECURSIVE SumPnlBefore(_, _)
SumPnlBefore(n, t) ==
    IF n = 0 THEN 0
    ELSE (IF trades[n].exit_timestamp < t THEN trades[n].realized_pnl ELSE 0)
         + SumPnlBefore(n - 1, t)

\* C32: the entry fee of a position is its notional times (fee rate +
\* slippage rate), 6 basis points; it is debited at the entry, so that each
\* entry is decided on the initial capital less the entry fees of all earlier
\* positions (those of the same step included) plus the realized PnL of the
\* Trades of earlier steps; and at every moment of the run capital is
\* initial_capital less the entry fees of all positions opened so far plus
\* the realized PnL of all Trades recorded so far, so that a step without an
\* entry and without an exit leaves it unchanged.
CapitalAccounting ==
    InRun =>
        /\ \A k \in 1..Len(opened) :
               /\ opened[k].entry_fee =
                      (((opened[k].size * opened[k].entry_price) \div 100) * 6) \div 10000
               /\ opened[k].capital =
                      initial_capital - SumEntryFees(k - 1)
                      + SumPnlBefore(Len(trades), df_1m[opened[k].step].ts)
        /\ current_capital =
               initial_capital - SumEntryFees(Len(opened)) + SumPnl(trades)
        /\ (opened = <<>> /\ trades = <<>>) => current_capital = initial_capital

\* C32 witness: a finished run in which a position was opened after a Trade
\* had been recorded, and which ended with a capital other than the initial
CapitalAccountingWitness ==
    /\ pc = "done"
    /\ current_capital # initial_capital
    /\ \E k \in 1..Len(opened) : \E n \in 1..Len(trades) :
           trades[n].exit_timestamp < df_1m[opened[k].step].ts

\* C33 as stated: the fee total of every Trade is the entry fee charged for
\* its own position plus its exit fee, whatever was opened between its entry
\* and its exit; and the fee totals of the Trades together with the entry
\* fees of the positions still open make up fees_paid.
TradeFeesAreItsOwn ==
    InRun =>
        /\ \A k \in 1..Len(trades) :
               trades[k].fees = opened[trades[k].pid].entry_fee + trades[k].exit_fee
        /\ pc \in {"metrics", "done"} =>
               SumSeq([k \in 1..Len(trades) |-> trades[k].fees])
               + SumSeq([k \in 1..Len(positions) |-> opened[positions[k].pid].entry_fee])
               = fees_paid


\* value of the last point of the equity curve
LastEquity == equity_curve[Len(equity_curve)][2]

\* C34 as stated: in every finished run the reported final_equity equals the
\* value of the last point of the returned equity curve, the capital plus the
\* unrealized PnL of the positions still open after the last fine candle,
\* also when positions were opened and no Trade was recorded.
FinalEquityIsLastPoint ==
    pc = "done" =>
        /\ result.equity_curve = equity_curve
        /\ LastEquity = current_capital + SumUnrealized(positions, current_price)
        /\ result.final_equity = LastEquity

\* C34: in every finished run the last point of the returned equity curve is
\* the capital plus the unrealized PnL of the positions still open after the
\* last fine candle; final_equity equals that value when at least one Trade
\* was recorded, and is the initial capital when none was, whatever
\* positions were opened.
FinalEquityOfRun ==
    pc = "done" =>
        /\ result.equity_curve = equity_curve
        /\ LastEquity = current_capital + SumUnrealized(positions, current_price)
        /\ trades # <<>> => result.final_equity = LastEquity
        /\ trades = <<>> => result.final_equity = initial_capital

\* C34 witness: a finished run with a Trade and a position still open whose
\* last equity point differs from the capital and from the initial capital
FinalEquityOfRunWitness ==
    /\ pc = "done"
    /\ trades # <<>>
    /\ positions # <<>>
    /\ LastEquity # current_capital
    /\ result.final_equity # initial_capital


\* TRUE iff s is the first fine step whose timestamp is at or after t
IsFirstStepAtOrAfter(s, t) ==
    /\ s \in 1..Len(df_1m)
    /\ df_1m[s].ts >= t
    /\ \A r \in 1..(s - 1) : df_1m[r].ts < t

\* C35: position conservation.  The coarse bars are entry-evaluated one by
\* one in stream order, each at most once, and an evaluation opens at most
\* one position; a bar is evaluated at the first fine step whose timestamp
\* is at or after the bar's, so that once the run is over the evaluated bars
\* are exactly those timestamped at or before the last fine timestamp; no
\* bar is behind two positions; and after every step the number of positions
\* opened so far is the number of Trades plus the number of open positions.
PositionConservation ==
    /\ [](InRun =>
            /\ Len(opened) <= last_15m_idx
            /\ \A a, b \in 1..Len(opened) : a # b => opened[a].bar_ts # opened[b].bar_ts
            /\ \A k \in 1..Len(opened) :
                   IsFirstStepAtOrAfter(opened[k].step, opened[k].bar_ts)
            /\ \A k \in 1..Len(step_entry_evals) :
                   IsFirstStepAtOrAfter(candle_idx, step_entry_evals[k])
            /\ pc \in {"exits", "metrics", "done"} =>
                   \A j \in 1..Len(df_15m) :
                       j <= last_15m_idx <=> df_15m[j].ts <= CurTs
            /\ pc # "exits" => Len(opened) = Len(trades) + Len(positions)
            /\ pc = "exits" =>
                   /\ Len(positions_to_close) <= Len(trades)
                   /\ Len(opened) = Len(trades) + Len(positions) - Len(positions_to_close))
    /\ [][InRun =>
            /\ last_15m_idx' \in {last_15m_idx, last_15m_idx + 1}
            /\ Len(opened') \in {Len(opened), Len(opened) + 1}
            /\ Len(opened') = Len(opened) + 1 => last_15m_idx' = last_15m_idx + 1
            /\ last_15m_idx' = last_15m_idx + 1 =>
                   /\ step_entry_evals' = Append(step_entry_evals, df_15m[last_15m_idx'].ts)
                   /\ IsFirstStepAtOrAfter(candle_idx, df_15m[last_15m_idx'].ts)]_vars

\* C35 witness: a finished run in which two bars were evaluated in different
\* steps, each opened a position, one position became a Trade and the other
\* is still open
PositionConservationWitness ==
    /\ pc = "done"
    /\ Len(opened) = 2
    /\ opened[1].step < opened[2].step
    /\ Len(trades) = 1
    /\ Len(positions) = 1


\* C36: after every step, each position still open is younger than 30
\* minutes at the fine timestamp of the step or the price of the step equals
\* its entry price, and is younger than 10 minutes or the price of the step
\* is not above its entry price.
NoAgedPositionSurvives ==
    (pc \in {"admit", "metrics", "done"} /\ Processed >= 1) =>
        \A k \in 1..Len(positions) :
            opened[positions[k].pid].step <= Processed =>
                LET age == df_1m[Processed].ts - positions[k].entry_timestamp
                    price == df_1m[Processed].close
                IN  /\ age >= 30 => price = positions[k].entry_price
                    /\ age >= 10 => price <= positions[k].entry_price

\* C36 witness: a finished run in which one position was closed by the exit
\* after 30 minutes at a loss and another, aged 10 minutes or more, is still
\* open below its entry price
NoAgedPositionSurvivesWitness ==
    /\ pc = "done"
    /\ \E k \in 1..Len(trades) : trades[k].exit_reason = "time_based_loss_exit"
    /\ \E k \in 1..Len(positions) :
           /\ CurTs - positions[k].entry_timestamp >= 10
           /\ current_price < positions[k].entry_price


\* C31 as stated: with the coarse frame load_data resamples from the file,
\* every coarse bar entry-evaluated at a fine timestamp t is complete at t:
\* every row of the file aggregated into the bar is timestamped at or
\* before t.
ResampledBarsComplete ==
    (~csv.none /\ pc \in {"admit", "exits"}) =>
        \A k \in 1..Len(step_entry_evals) :
            \A i \in 1..Len(csv.df) :
                IntervalLabel(csv.df[i].ts) = step_entry_evals[k] =>
                    csv.df[i].ts <= CurTs

====
